---- MODULE Spec2Model ----
(***************************************************************************)
(* Model of the hotel matching code of ok-tv:                              *)
(*   src/hotel_checker.py              HotelChecker.check and normalizers  *)
(*   src/telegram_hotel_booking_bot.py best_matches, the handlers of the   *)
(*                                     webhook bot and the module import   *)
(*   src/main.py                       the questionnaire of the polling    *)
(*                                     bot                                 *)
(*                                                                         *)
(* A Python str is a sequence of characters; a character is a one-element  *)
(* token.  ASCII characters stand for themselves, the others carry a       *)
(* name: "ge_q" is GEORGIAN LETTER KHAR (U+10E5), "LDQ" is the left double *)
(* quotation mark (U+201C), "TAB" is U+0009, "FW_A" is FULLWIDTH LATIN     *)
(* CAPITAL LETTER A (U+FF21), "FW_a" the small one (U+FF41), "NBSP" is     *)
(* U+00A0, "DQ" and "SQ" are the ASCII double and single quote, "RDQ" and  *)
(* "RSQ" the right double and single quotation marks (U+201D, U+2019),     *)
(* "LSQ" is the left single quotation mark (U+2018).                       *)
(* A similarity (a Python float in [0, 1]) is kept as the exact fraction   *)
(* <<num, den>>; a rounded score is kept in units of 1/10000.              *)
(***************************************************************************)
EXTENDS Integers, Sequences, FiniteSets, TLC

(***************************************************************************)
(* Characters and their classes.                                           *)
(***************************************************************************)
ge_q  == "ge_q"
ge_u  == "ge_u"
ge_ch == "ge_ch"
ge_a  == "ge_a"
ge_g  == "ge_g"
ge_m  == "ge_m"
ge_z  == "ge_z"
ge_i  == "ge_i"
ge_r  == "ge_r"
ge_gh == "ge_gh"
ge_sh == "ge_sh"
ge_e  == "ge_e"
ge_n  == "ge_n"
ge_b  == "ge_b"
ge_l  == "ge_l"
ge_s  == "ge_s"
ge_t  == "ge_t"
ge_k  == "ge_k"
ge_c  == "ge_c"

\* the characters of the range Ⴀ-ჿ used by the model
GeorgianChars ==
    {ge_q, ge_u, ge_ch, ge_a, ge_g, ge_m, ge_z, ge_i, ge_r, ge_gh,
     ge_sh, ge_e, ge_n, ge_b, ge_l, ge_s, ge_t, ge_k, ge_c}

LatinLower == {"a", "b", "c", "d", "e", "h", "i", "k", "l", "o", "t", "x", "y", "z"}
LatinUpper == {"A", "B", "H"}
DigitChars == {"0", "1", "2", "5"}

\* characters matched by \s, removed by str.strip(), split at by str.split()
SpaceChars == {" ", "TAB", "NBSP"}

\* the five quotation characters deleted by normalize_strict
QuoteChars == {"LDQ", "RDQ", "DQ", "RSQ", "SQ"}

\* characters matched by \w of a Python 3 str pattern
WordChars == LatinLower \cup LatinUpper \cup DigitChars \cup GeorgianChars
             \cup {"_", "FW_A", "FW_a"}

\* Python's None where a str is expected: no character is called "None"
None == <<"None">>

(***************************************************************************)
(* Generic sequence helpers.                                               *)
(***************************************************************************)
\* does k occur in s at position i
StartsAt(s, k, i) ==
    /\ i + Len(k) - 1 <= Len(s)
    /\ \A t \in 1..Len(k) : s[i + t - 1] = k[t]

RECURSIVE ReplaceFrom(_, _, _, _)
ReplaceFrom(s, k, v, i) ==
    IF i > Len(s) THEN << >>
    ELSE IF StartsAt(s, k, i) THEN v \o ReplaceFrom(s, k, v, i + Len(k))
    ELSE <<s[i]>> \o ReplaceFrom(s, k, v, i + 1)

\* str.replace(k, v) for a non-empty k: left to right, non-overlapping
Replace(s, k, v) == ReplaceFrom(s, k, v, 1)

RECURSIVE LStrip(_)
LStrip(s) ==
    IF s # << >> /\ Head(s) \in SpaceChars THEN LStrip(Tail(s)) ELSE s

RECURSIVE RStrip(_)
RStrip(s) ==
    IF s # << >> /\ s[Len(s)] \in SpaceChars
    THEN RStrip(SubSeq(s, 1, Len(s) - 1)) ELSE s

\* str.strip()
Strip(s) == RStrip(LStrip(s))

\* re.sub(r"[cls]+", " ", s): every maximal run of characters of cls
\* becomes one space
RECURSIVE SubRuns(_, _, _)
SubRuns(s, cls, inRun) ==
    IF s = << >> THEN << >>
    ELSE IF Head(s) \in cls
         THEN (IF inRun THEN << >> ELSE <<" ">>) \o SubRuns(Tail(s), cls, TRUE)
         ELSE <<Head(s)>> \o SubRuns(Tail(s), cls, FALSE)

(***************************************************************************)
(* Text normalization, hotel_checker.py lines 27-70.                       *)
(***************************************************************************)
\* unicodedata.normalize("NFKC", c) for one character
NfkcChar(c) ==
    CASE c = "FW_A" -> "A"
      [] c = "FW_a" -> "a"
      [] c = "NBSP" -> " "
      [] OTHER -> c

\* str.lower() for one character
LowerChar(c) ==
    CASE c = "A" -> "a"
      [] c = "B" -> "b"
      [] c = "H" -> "h"
      [] c = "FW_A" -> "FW_a"
      [] OTHER -> c

_nfkc(s) ==
    IF s = None THEN << >> ELSE [i \in 1..Len(s) |-> NfkcChar(s[i])]

Lower(s) == [i \in 1..Len(s) |-> LowerChar(s[i])]

_clean_punct_keep_words(s) ==
    LET kept == WordChars \cup GeorgianChars \cup {" "}
        s1 == SubRuns(s, {s[i] : i \in 1..Len(s)} \ kept, FALSE)
        s2 == SubRuns(s1, SpaceChars, FALSE)
    IN  Strip(s2)

normalize_strict(s) ==
    LET s1 == Strip(Lower(_nfkc(s)))
        s2 == SelectSeq(s1, LAMBDA c : c \notin QuoteChars)
    IN  _clean_punct_keep_words(s2)

normalize_soft(s) ==
    LET s1 == Strip(Lower(_nfkc(s)))
    IN  SubRuns(s1, SpaceChars, FALSE)

\* the (key, value) pairs of the dict in insertion order
_ADDR_EQUIV ==
    << <<  <<ge_q, ".">>,  <<ge_q, ge_u, ge_ch, ge_a>>  >>,
       <<  <<ge_q, " ">>,  <<ge_q, ge_u, ge_ch, ge_a, " ">>  >>,
       <<  <<ge_q, ge_u, ge_ch>>,  <<ge_q, ge_u, ge_ch, ge_a>>  >>,
       <<  <<ge_g, ge_a, ge_m, ge_z, ".">>,
           <<ge_g, ge_a, ge_m, ge_z, ge_i, ge_r, ge_i>>  >>,
       <<  <<ge_a, ge_gh, ge_m, ge_a, ge_sh, ge_e, ge_n, ge_e, ge_b, ge_l,
             ge_i, ge_s, " ", ge_g, ge_a, ge_m, ge_z, ".">>,
           <<ge_a, ge_gh, ge_m, ge_a, ge_sh, ge_e, ge_n, ge_e, ge_b, ge_l,
             ge_i, ge_s, " ", ge_g, ge_a, ge_m, ge_z, ge_i, ge_r, ge_i>>  >>,
       <<  <<ge_g, ge_z, ge_a, ge_t, ge_k, ge_e, ge_c, ge_i, ge_l, ge_i>>,
           <<ge_g, ge_z, ge_a, ge_t, ge_k, ge_e, ge_c, ge_i, ge_l, ge_i>>  >> >>

RECURSIVE ApplyEquiv(_, _)
ApplyEquiv(s, n) ==
    IF n > Len(_ADDR_EQUIV) THEN s
    ELSE ApplyEquiv(Replace(s, _ADDR_EQUIV[n][1], _ADDR_EQUIV[n][2]), n + 1)

normalize_address(s) == ApplyEquiv(normalize_strict(s), 1)

(***************************************************************************)
(* difflib.SequenceMatcher(None, a, b).ratio() as used in check, lines     *)
(* 200-201.  No junk predicate is given and the automatic junk heuristic   *)
(* needs a second sequence of at least 200 elements, so every element of   *)
(* b is indexed.                                                           *)
(***************************************************************************)

\* length of the common run of a[i..ahi] and b[j..bhi] starting at i and j
RECURSIVE CommonRun(_, _, _, _, _, _)
CommonRun(a, b, i, ahi, j, bhi) ==
    IF i > ahi \/ j > bhi \/ a[i] # b[j] THEN 0
    ELSE 1 + CommonRun(a, b, i + 1, ahi, j + 1, bhi)

\* find_longest_match(alo, ahi, blo, bhi) on the 1-based inclusive ranges
\* a[alo..ahi], b[blo..bhi]: the longest block, of those the one starting
\* earliest in a, of those the one starting earliest in b; <<alo, blo, 0>>
\* when no element matches
find_longest_match(a, b, alo, ahi, blo, bhi) ==
    LET blocks == {<<i, j, CommonRun(a, b, i, ahi, j, bhi)>> :
                      i \in alo..ahi, j \in blo..bhi}
        better(x, y) == \/ x[3] > y[3]
                        \/ x[3] = y[3] /\ x[1] < y[1]
                        \/ x[3] = y[3] /\ x[1] = y[1] /\ x[2] <= y[2]
        best == CHOOSE x \in blocks : \A y \in blocks : better(x, y)
    IN  IF blocks = {} \/ best[3] = 0 THEN <<alo, blo, 0>> ELSE best

\* sum of the sizes of get_matching_blocks(): the longest block, then the
\* blocks to its left and to its right
RECURSIVE MatchedSize(_, _, _, _, _, _)
MatchedSize(a, b, alo, ahi, blo, bhi) ==
    IF alo > ahi \/ blo > bhi THEN 0
    ELSE LET m == find_longest_match(a, b, alo, ahi, blo, bhi)
         IN  IF m[3] = 0 THEN 0
             ELSE m[3]
                  + MatchedSize(a, b, alo, m[1] - 1, blo, m[2] - 1)
                  + MatchedSize(a, b, m[1] + m[3], ahi, m[2] + m[3], bhi)

\* ratio(): 2.0 * matches / (len(a) + len(b)), and 1.0 when both are empty
ratio(a, b) ==
    IF Len(a) + Len(b) = 0 THEN <<1, 1>>
    ELSE <<2 * MatchedSize(a, b, 1, Len(a), 1, Len(b)), Len(a) + Len(b)>>

(***************************************************************************)
(* Score arithmetic of check, lines 204-217.                               *)
(***************************************************************************)
W_NAME == 6000
W_ADDR == 4000
ScoreFloor == 7000
FieldFloorNum == 85
FieldFloorDen == 100
CandCap == 5

\* round(p / q, 0) for q > 0 and p >= 0, halves to the even neighbour
RoundDiv(p, q) ==
    LET f == p \div q
        r2 == 2 * (p % q)
    IN  IF r2 > q \/ (r2 = q /\ f % 2 = 1) THEN f + 1 ELSE f

\* round(x, 4) of the fraction x, in units of 1/10000
Round4(x) == RoundDiv(10000 * x[1], x[2])

\* the two weights exchanged
CombinedScore_SwappedWeights(ns, as) ==
    RoundDiv(W_ADDR * ns[1] * as[2] + W_NAME * as[1] * ns[2], ns[2] * as[2])

\* round(name_sim * 0.6 + addr_sim * 0.4, 4), in units of 1/10000
CombinedScore(ns, as) ==
    RoundDiv(W_NAME * ns[1] * as[2] + W_ADDR * as[1] * ns[2], ns[2] * as[2])

\* sim >= 0.85
FieldStrong(sim) == FieldFloorDen * sim[1] >= FieldFloorNum * sim[2]

\* a floor of 0.50 on the combined score instead of 0.70
Qualifies_FloorHalf(score, ns, as) ==
    2 * score >= 10000 \/ FieldStrong(ns) \/ FieldStrong(as)

\* the combined score alone decides
Qualifies_CombinedOnly(score, ns, as) == score >= ScoreFloor

\* the condition of line 209
Qualifies(score, ns, as) ==
    score >= ScoreFloor \/ FieldStrong(ns) \/ FieldStrong(as)

(***************************************************************************)
(* HotelChecker, hotel_checker.py lines 107-234.                           *)
(* A cached row is <<name_raw, addr_raw, comment_raw, row_dict>>.  The     *)
(* sheet has the header row "Hotel Name", "Address", "Comment", so the     *)
(* column map sends these to the cells 1, 2, 3 of a value row.             *)
(* Python's None in exact_row is the empty sequence, a row_dict r is <<r>>.*)
(***************************************************************************)
HeaderRow == <<"Hotel Name", "Address", "Comment">>

\* _clean_header of the header cells of the sheet: normalize_strict, then
\* the table of lines 79-100
_clean_header(h) ==
    CASE h = "Hotel Name" -> "hotel name"
      [] h = "Address" -> "address"
      [] h = "Comment" -> "comment"
      [] OTHER -> h

\* self._headers_norm, line 125
HeadersNorm(values) == [i \in 1..Len(values[1]) |-> _clean_header(values[1][i])]

\* self._colmap.get(name), lines 126 and 144-146: the cell of that header
ColIdx(values, name) ==
    CHOOSE i \in 1..Len(values[1]) : HeadersNorm(values)[i] = name

\* row_dict of lines 152-155: normalized header -> cell
RowDict(values, row_list) ==
    [h \in {HeadersNorm(values)[i] : i \in 1..Len(values[1])} |->
        row_list[ColIdx(values, h)]]

name_raw(values, row_list) == row_list[ColIdx(values, "hotel name")]

addr_raw(values, row_list) == row_list[ColIdx(values, "address")]

comm_raw(values, row_list) == row_list[ColIdx(values, "comment")]

\* not (name.strip() or addr.strip() or comm.strip()), line 162
BlankRow(values, row_list) ==
    /\ Strip(name_raw(values, row_list)) = << >>
    /\ Strip(addr_raw(values, row_list)) = << >>
    /\ Strip(comm_raw(values, row_list)) = << >>

RECURSIVE LoadFrom(_, _)
LoadFrom(values, r) ==
    IF r > Len(values) THEN << >>
    ELSE IF BlankRow(values, values[r]) THEN LoadFrom(values, r + 1)
    ELSE << <<name_raw(values, values[r]), addr_raw(values, values[r]),
              comm_raw(values, values[r]), RowDict(values, values[r])>> >>
         \o LoadFrom(values, r + 1)

\* values[1] is the header row
_load_rows(values) ==
    IF Len(values) < 2 THEN << >> ELSE LoadFrom(values, 2)

\* the name alone decides
IsExact_NameOnly(row, name_in_norm, addr_in_norm) ==
    normalize_strict(row[1]) = name_in_norm

\* the condition of line 190 for one row
IsExact(row, name_in_norm, addr_in_norm) ==
    normalize_strict(row[1]) = name_in_norm
        /\ normalize_address(row[2]) = addr_in_norm

\* the positions of the rows that pass the exact test
ExactRows(rows, name_in_norm, addr_in_norm) ==
    {i \in 1..Len(rows) : IsExact(rows[i], name_in_norm, addr_in_norm)}

\* the last row that passes instead of the first
ExactPass_Last(rows, name_in_norm, addr_in_norm) ==
    LET hits == ExactRows(rows, name_in_norm, addr_in_norm)
    IN  IF hits = {} THEN << >>
        ELSE LET last == CHOOSE i \in hits : \A j \in hits : i >= j
             IN  <<rows[last][4]>>

\* the first loop of check, lines 189-195: the row it returns, << >> if none
ExactPass(rows, name_in_norm, addr_in_norm) ==
    LET hits == ExactRows(rows, name_in_norm, addr_in_norm)
    IN  IF hits = {} THEN << >>
        ELSE LET first == CHOOSE i \in hits : \A j \in hits : i <= j
             IN  <<rows[first][4]>>

name_sim(row, name_in) == ratio(normalize_soft(row[1]), normalize_soft(name_in))

addr_sim(row, addr_in) == ratio(normalize_soft(row[2]), normalize_soft(addr_in))

\* the dict appended in lines 210-217
Candidate(row, ns, as) ==
    [hotel_name |-> Strip(row[1]),
     address    |-> Strip(row[2]),
     comment    |-> Strip(row[3]),
     score      |-> CombinedScore(ns, as),
     score_name |-> Round4(ns),
     score_addr |-> Round4(as)]

\* the second loop of check, lines 198-217
RECURSIVE ScoredPass(_, _, _, _)
ScoredPass(rows, name_in, addr_in, i) ==
    IF i > Len(rows) THEN << >>
    ELSE LET ns == name_sim(rows[i], name_in)
             as == addr_sim(rows[i], addr_in)
         IN  (IF Qualifies(CombinedScore(ns, as), ns, as)
              THEN <<Candidate(rows[i], ns, as)>> ELSE << >>)
             \o ScoredPass(rows, name_in, addr_in, i + 1)

\* the sort key of line 219
SortKey(c) == <<c.score, c.score_name, c.score_addr>>

\* tuple comparison k1 >= k2
KeyGE(k1, k2) ==
    \/ k1[1] > k2[1]
    \/ k1[1] = k2[1] /\ k1[2] > k2[2]
    \/ k1[1] = k2[1] /\ k1[2] = k2[2] /\ k1[3] >= k2[3]

\* c placed into the descending list s behind every element whose key is
\* not smaller: list.sort(reverse=True) keeps equal keys in their order
InsertDesc(s, c) ==
    LET ahead == {i \in 1..Len(s) : KeyGE(SortKey(s[i]), SortKey(c))}
        n == Cardinality(ahead)
    IN  SubSeq(s, 1, n) \o <<c>> \o SubSeq(s, n + 1, Len(s))

\* the list left in the order of the rows
SortDesc_Unsorted(cands) == cands

RECURSIVE SortDesc(_)
SortDesc(cands) ==
    IF cands = << >> THEN << >>
    ELSE InsertDesc(SortDesc(SubSeq(cands, 1, Len(cands) - 1)),
                    cands[Len(cands)])

\* no cut
Cap_None(cands) == cands

\* cands[:5], line 220
Cap(cands) == SubSeq(cands, 1, IF Len(cands) < CandCap THEN Len(cands) ELSE CandCap)

\* x or "", lines 182-183
OrEmpty(x) == IF x = None \/ x = << >> THEN << >> ELSE x

\* the scored pass run before the exact pass
check_ScoredFirst(rows, input_name_en, input_addr_ka) ==
    LET name_in == OrEmpty(input_name_en)
        addr_in == OrEmpty(input_addr_ka)
        exact == ExactPass(rows, normalize_strict(name_in), normalize_address(addr_in))
        cands == Cap(SortDesc(ScoredPass(rows, name_in, addr_in, 1)))
    IN  IF cands # << >>
        THEN [status |-> "similar", exact_row |-> << >>, candidates |-> cands]
        ELSE IF exact # << >>
        THEN [status |-> "exact", exact_row |-> exact, candidates |-> << >>]
        ELSE [status |-> "none", exact_row |-> << >>, candidates |-> << >>]

\* "similar" returned whether or not a row qualified
check_NoNone(rows, input_name_en, input_addr_ka) ==
    LET name_in == OrEmpty(input_name_en)
        addr_in == OrEmpty(input_addr_ka)
        exact == ExactPass(rows, normalize_strict(name_in), normalize_address(addr_in))
        cands == Cap(SortDesc(ScoredPass(rows, name_in, addr_in, 1)))
    IN  IF exact # << >>
        THEN [status |-> "exact", exact_row |-> exact, candidates |-> << >>]
        ELSE [status |-> "similar", exact_row |-> << >>, candidates |-> cands]

\* no "or" in lines 182-183 and no "s or" in line 30: None raises
check_RaisesOnNone(rows, input_name_en, input_addr_ka) ==
    IF input_name_en = None \/ input_addr_ka = None
    THEN [status |-> "raised", exact_row |-> << >>, candidates |-> << >>]
    ELSE LET exact == ExactPass(rows, normalize_strict(input_name_en),
                                normalize_address(input_addr_ka))
             cands == Cap(SortDesc(ScoredPass(rows, input_name_en, input_addr_ka, 1)))
         IN  IF exact # << >>
             THEN [status |-> "exact", exact_row |-> exact, candidates |-> << >>]
             ELSE IF cands # << >>
             THEN [status |-> "similar", exact_row |-> << >>, candidates |-> cands]
             ELSE [status |-> "none", exact_row |-> << >>, candidates |-> << >>]

check(rows, input_name_en, input_addr_ka) ==
    LET name_in == OrEmpty(input_name_en)
        addr_in == OrEmpty(input_addr_ka)
        name_in_norm == normalize_strict(name_in)
        addr_in_norm == normalize_address(addr_in)
        exact == ExactPass(rows, name_in_norm, addr_in_norm)
        cands == Cap(SortDesc(ScoredPass(rows, name_in, addr_in, 1)))
    IN  IF exact # << >>
        THEN [status |-> "exact", exact_row |-> exact, candidates |-> << >>]
        ELSE IF cands # << >>
        THEN [status |-> "similar", exact_row |-> << >>, candidates |-> cands]
        ELSE [status |-> "none", exact_row |-> << >>, candidates |-> << >>]

(***************************************************************************)
(* best_matches, telegram_hotel_booking_bot.py lines 93-145, and           *)
(* fuzz.token_set_ratio of fuzzywuzzy as it calls it (force_ascii and      *)
(* full_process at their defaults, difflib as the sequence matcher).       *)
(***************************************************************************)
\* ord(c)
CodePoint(c) ==
    CASE c = "TAB" -> 9
      [] c = " " -> 32
      [] c = "DQ" -> 34
      [] c = "SQ" -> 39
      [] c = "," -> 44
      [] c = "-" -> 45
      [] c = "." -> 46
      [] c = "0" -> 48
      [] c = "1" -> 49
      [] c = "2" -> 50
      [] c = "5" -> 53
      [] c = "A" -> 65
      [] c = "B" -> 66
      [] c = "H" -> 72
      [] c = "_" -> 95
      [] c = "a" -> 97
      [] c = "b" -> 98
      [] c = "c" -> 99
      [] c = "d" -> 100
      [] c = "e" -> 101
      [] c = "h" -> 104
      [] c = "i" -> 105
      [] c = "k" -> 107
      [] c = "l" -> 108
      [] c = "o" -> 111
      [] c = "t" -> 116
      [] c = "x" -> 120
      [] c = "y" -> 121
      [] c = "z" -> 122
      [] c = "NBSP" -> 160
      [] c = "ge_a" -> 4304
      [] c = "ge_b" -> 4305
      [] c = "ge_g" -> 4306
      [] c = "ge_e" -> 4308
      [] c = "ge_z" -> 4310
      [] c = "ge_i" -> 4312
      [] c = "ge_k" -> 4313
      [] c = "ge_l" -> 4314
      [] c = "ge_m" -> 4315
      [] c = "ge_n" -> 4316
      [] c = "ge_r" -> 4320
      [] c = "ge_s" -> 4321
      [] c = "ge_t" -> 4322
      [] c = "ge_u" -> 4323
      [] c = "ge_q" -> 4325
      [] c = "ge_gh" -> 4326
      [] c = "ge_sh" -> 4328
      [] c = "ge_ch" -> 4329
      [] c = "ge_c" -> 4330
      [] c = "LSQ" -> 8216
      [] c = "RSQ" -> 8217
      [] c = "LDQ" -> 8220
      [] c = "RDQ" -> 8221
      [] c = "FW_A" -> 65313
      [] c = "FW_a" -> 65345

\* Python's < on two str: by code point, a proper prefix first
RECURSIVE StrLess(_, _)
StrLess(s, t) ==
    IF t = << >> THEN FALSE
    ELSE IF s = << >> THEN TRUE
    ELSE IF Head(s) # Head(t) THEN CodePoint(Head(s)) < CodePoint(Head(t))
    ELSE StrLess(Tail(s), Tail(t))

\* str.split(): the maximal runs of non-space characters, in order
RECURSIVE Split(_, _)
Split(s, word) ==
    IF s = << >> THEN (IF word = << >> THEN << >> ELSE <<word>>)
    ELSE IF Head(s) \in SpaceChars
         THEN (IF word = << >> THEN << >> ELSE <<word>>) \o Split(Tail(s), << >>)
         ELSE Split(Tail(s), Append(word, Head(s)))

\* " ".join(words)
RECURSIVE Join(_)
Join(words) ==
    IF words = << >> THEN << >>
    ELSE IF Len(words) = 1 THEN words[1]
    ELSE words[1] \o <<" ">> \o Join(Tail(words))

\* sorted(S) for a set of str
RECURSIVE Sorted(_)
Sorted(S) ==
    IF S = {} THEN << >>
    ELSE LET least == CHOOSE x \in S : \A y \in S \ {x} : StrLess(x, y)
         IN  <<least>> \o Sorted(S \ {least})

\* normalize of the bot, line 129: " ".join(s.lower().strip().split())
normalize(s) == Join(Split(Strip(Lower(s)), << >>))

\* utils.full_process: the characters U+0080..U+00FF deleted, every other
\* character outside \w turned into a space, lower-cased, stripped
full_process(s) ==
    LET s1 == SelectSeq(s, LAMBDA c : CodePoint(c) < 128 \/ CodePoint(c) > 255)
        s2 == [i \in 1..Len(s1) |-> IF s1[i] \in WordChars THEN s1[i] ELSE " "]
    IN  Strip(Lower(s2))

\* fuzz.ratio: 100 for equal strings, 0 when one is empty, else
\* int(round(100 * SequenceMatcher(None, s1, s2).ratio()))
fuzz_ratio(s1, s2) ==
    IF s1 = s2 THEN 100
    ELSE IF s1 = << >> \/ s2 = << >> THEN 0
    ELSE RoundDiv(100 * ratio(s1, s2)[1], ratio(s1, s2)[2])

Max3(x, y, z) ==
    IF x >= y /\ x >= z THEN x ELSE IF y >= z THEN y ELSE z

token_set_ratio(s1, s2) ==
    LET p1 == full_process(s1)
        p2 == full_process(s2)
        tokens1 == {Split(p1, << >>)[i] : i \in 1..Len(Split(p1, << >>))}
        tokens2 == {Split(p2, << >>)[i] : i \in 1..Len(Split(p2, << >>))}
        sorted_sect == Join(Sorted(tokens1 \cap tokens2))
        sorted_1to2 == Join(Sorted(tokens1 \ tokens2))
        sorted_2to1 == Join(Sorted(tokens2 \ tokens1))
        combined_1to2 == Strip(sorted_sect \o <<" ">> \o sorted_1to2)
        combined_2to1 == Strip(sorted_sect \o <<" ">> \o sorted_2to1)
    IN  IF p1 = << >> \/ p2 = << >> THEN 0
        ELSE Max3(fuzz_ratio(Strip(sorted_sect), combined_1to2),
                  fuzz_ratio(Strip(sorted_sect), combined_2to1),
                  fuzz_ratio(combined_1to2, combined_2to1))

\* a cell as get_all_records returns it and str() prints it: a cell of
\* digits goes through int, which drops its leading zeros
RECURSIVE DropZeros(_)
DropZeros(s) ==
    IF Len(s) > 1 /\ Head(s) = "0" THEN DropZeros(Tail(s)) ELSE s

Numericised(cell) ==
    IF cell # << >> /\ \A i \in 1..Len(cell) : cell[i] \in DigitChars
    THEN DropZeros(cell) ELSE cell

\* row.get(header, "") on the record of one value row
RecordGet(values, row_list, header) ==
    IF \E i \in 1..Len(values[1]) : values[1][i] = header
    THEN Numericised(row_list[CHOOSE i \in 1..Len(values[1]) : values[1][i] = header])
    ELSE << >>

\* read_all_hotels, lines 93-106, on the values of the sheet
read_all_hotels(values) ==
    [r \in 1..(Len(values) - 1) |->
        [name    |-> Strip(RecordGet(values, values[r + 1], "Hotel Name")),
         address |-> Strip(RecordGet(values, values[r + 1], "Address")),
         status  |-> Strip(RecordGet(values, values[r + 1], "Status")),
         comment |-> Strip(RecordGet(values, values[r + 1], "Comment"))]]

\* the score of line 142
HotelScore(h, name, address) ==
    (token_set_ratio(normalize(name), normalize(h.name))
       + token_set_ratio(normalize(address), normalize(h.address))) \div 2

\* res.sort(key=lambda x: x[1], reverse=True): pair p placed behind every
\* pair whose score is not smaller
InsertByScore(s, p) ==
    LET n == Cardinality({i \in 1..Len(s) : s[i][2] >= p[2]})
    IN  SubSeq(s, 1, n) \o <<p>> \o SubSeq(s, n + 1, Len(s))

RECURSIVE SortByScore(_)
SortByScore(res) ==
    IF res = << >> THEN << >>
    ELSE InsertByScore(SortByScore(SubSeq(res, 1, Len(res) - 1)), res[Len(res)])

\* res[:limit]
Limit(res, limit) == SubSeq(res, 1, IF Len(res) < limit THEN Len(res) ELSE limit)

best_matches(hotels, name, address, limit) ==
    LET res == [i \in 1..Len(hotels) |->
                   <<hotels[i], HotelScore(hotels[i], name, address)>>]
    IN  Limit(SortByScore(res), limit)

(***************************************************************************)
(* Inputs of the model: the cells of the sheet and the arguments of check. *)
(***************************************************************************)
N_ab    == <<"a", "b">>
N_Ab    == <<"A", "b", " ">>
N_a_b   == <<"a", ".", "b">>
N_qab   == <<"SQ", "a", "b">>
N_ba    == <<"b", "a">>
N_aa    == <<"a", "a">>
N_xy    == <<"x", "y">>
N_dot   == <<".">>
Empty   == << >>

A_q1      == <<ge_q, ".", " ", "1">>
A_full1   == <<ge_q, ge_u, ge_ch, ge_a, " ", "1">>
A_full2   == <<ge_q, ge_u, ge_ch, ge_a, " ", "2">>
A_qEnd    == <<"1", " ", ge_q, ".">>
A_fullEnd == <<"1", " ", ge_q, ge_u, ge_ch, ge_a>>
A_street  == <<ge_q, ge_u, ge_ch, ge_a>>
A_gamz    == <<ge_g, ge_a, ge_m, ge_z, ".">>
A_gamziri == <<ge_g, ge_a, ge_m, ge_z, ge_i, ge_r, ge_i>>

C_note  == <<"o", "k">>

\* value rows of the sheet: <<hotel name, address, comment>>
SheetRowPool ==
    { <<N_ab, A_full1, C_note>>,
      <<N_Ab, A_q1, Empty>>,
      <<N_ab, A_full2, Empty>>,
      <<N_ba, A_full1, Empty>>,
      <<N_ab, A_gamziri, C_note>>,
      <<N_ab, A_fullEnd, Empty>>,
      <<N_xy, A_qEnd, Empty>>,
      <<N_ba, A_q1, Empty>>,
      <<N_a_b, A_full1, Empty>>,
      <<N_ab, A_street, Empty>>,
      <<N_xy, Empty, Empty>>,
      <<Empty, Empty, C_note>>,
      <<Empty, Empty, Empty>> }

\* value rows for the long sheets
LongRowPool ==
    { <<N_ab, A_gamziri, Empty>>,
      <<N_ba, A_full1, C_note>> }

\* the calls of check: <<input_name_en, input_addr_ka>>
QueryPool ==
    { <<N_ab, A_full1>>, <<N_ab, A_q1>>, <<N_ab, A_qEnd>>, <<N_ab, A_gamz>>,
      <<N_aa, A_full1>>, <<N_aa, A_qEnd>>, <<N_qab, A_full1>>,
      <<N_xy, Empty>>, <<Empty, A_full1>>,
      <<Empty, Empty>>, <<None, None>>, <<N_dot, None>> }

LongQueryPool == { <<N_ab, A_full1>>, <<N_aa, A_full1>> }

MaxRows == 2
MaxLongRows == 6

\* the sequences over S of length at most n
SeqsUpTo(S, n) == UNION {[1..k -> S] : k \in 0..n}

(***************************************************************************)
(* State.                                                                  *)
(*   sheet           the values of the worksheet, header row first         *)
(*   rows            HotelChecker._rows, the cache filled by __init__      *)
(*   input_name_en,                                                        *)
(*   input_addr_ka   the arguments of the calls of check                   *)
(*   result          what the last call of check returned; status          *)
(*                   "pending" before the first call                       *)
(*   prev            what the call before the last returned                *)
(*   matches         what best_matches returned for the same name and      *)
(*                   address on the hotels read from the sheet             *)
(*   searched        best_matches has been called                          *)
(*   text            the argument of a call of normalize_strict            *)
(*   strict          what it returned, None before the call                *)
(*   sim_a, sim_b    the two texts compared in lines 200-201, row's first  *)
(*   sim             their similarity, << >> before it is computed         *)
(*   row_name_sim,                                                         *)
(*   row_addr_sim    name_sim and addr_sim of one row at line 204          *)
(*   row_score       the score line 204 computes from them, -1 before      *)
(*   conversations   the state of the user's conversation in each          *)
(*                   ConversationHandler of the webhook bot, "None" when   *)
(*                   the user is in no conversation                        *)
(*   user_data       context.user_data of the user, key -> value           *)
(*   ws              the values of the worksheet the bot reads and appends *)
(*   handled         one entry for each update given to process_update:    *)
(*                   the update, the callback that handled it and the      *)
(*                   conversation states after it                          *)
(*   env             the four environment variables read at import         *)
(*   main_pc         where the thread that imports the bot module stands   *)
(*   bg_pc           where the background thread of start_background_loop  *)
(*                   stands in _build_and_start_application                *)
(*   defined         the handler names bound in the module's globals       *)
(*   added           the number of add_handler calls completed             *)
(*   app_ready       _app_ready is set                                     *)
(***************************************************************************)
VARIABLES sheet, rows, input_name_en, input_addr_ka, result, prev, matches, searched
VARIABLES text, strict
VARIABLES sim_a, sim_b, sim
VARIABLES row_name_sim, row_addr_sim, row_score
VARIABLES conversations, user_data, ws, handled
VARIABLES env, main_pc, bg_pc, defined, added, app_ready
VARIABLES main_user_data, next_step_handlers, main_sheet, clock, step

checker_vars ==
    <<sheet, rows, input_name_en, input_addr_ka, result, prev, matches, searched>>

text_vars == <<text, strict>>

sim_vars == <<sim_a, sim_b, sim>>

score_vars == <<row_name_sim, row_addr_sim, row_score>>

bot_vars == <<conversations, user_data, ws, handled>>

start_vars == <<env, main_pc, bg_pc, defined, added, app_ready>>

main_vars == <<main_user_data, next_step_handlers, main_sheet, clock, step>>

vars == <<checker_vars, text_vars, sim_vars, score_vars, bot_vars, start_vars,
          main_vars>>

Pending == [status |-> "pending", exact_row |-> << >>, candidates |-> << >>]

\* no HotelChecker: an empty worksheet and no call
CheckerIdle ==
    /\ sheet = << >> /\ rows = << >>
    /\ input_name_en = None /\ input_addr_ka = None
    /\ result = Pending /\ prev = Pending
    /\ matches = << >> /\ searched = FALSE

\* no call of normalize_strict
TextIdle == text = None /\ strict = None

\* no similarity asked for
SimIdle == sim_a = << >> /\ sim_b = << >> /\ sim = << >>

\* no row at line 204
ScoreIdle == row_name_sim = << >> /\ row_addr_sim = << >> /\ row_score = -1

\* no user in a conversation
NoConversation == [search_conv |-> "None", new_conv |-> "None"]

\* no update given to the bot
BotIdle ==
    /\ conversations = NoConversation
    /\ user_data = << >>
    /\ ws = << >>
    /\ handled = << >>

\* the bot module is not imported
StartIdle ==
    /\ env = << >>
    /\ main_pc = "" /\ bg_pc = ""
    /\ defined = {}
    /\ added = 0
    /\ app_ready = FALSE

\* main.py is not running
MainIdle ==
    /\ main_user_data = << >>
    /\ next_step_handlers = << >>
    /\ main_sheet = << >>
    /\ clock = 0
    /\ step = << >>

\* the parts of the program outside part g have not run
IdleExcept(g) ==
    /\ g = "checker" \/ CheckerIdle
    /\ g = "text" \/ TextIdle
    /\ g = "sim" \/ SimIdle
    /\ g = "score" \/ ScoreIdle
    /\ g = "bot" \/ BotIdle
    /\ g = "start" \/ StartIdle
    /\ g = "main" \/ MainIdle

\* a step of part g leaves the variables of the other parts alone
Frame(g) ==
    /\ IF g = "checker" THEN TRUE ELSE UNCHANGED checker_vars
    /\ IF g = "text" THEN TRUE ELSE UNCHANGED text_vars
    /\ IF g = "sim" THEN TRUE ELSE UNCHANGED sim_vars
    /\ IF g = "score" THEN TRUE ELSE UNCHANGED score_vars
    /\ IF g = "bot" THEN TRUE ELSE UNCHANGED bot_vars
    /\ IF g = "start" THEN TRUE ELSE UNCHANGED start_vars
    /\ IF g = "main" THEN TRUE ELSE UNCHANGED main_vars

\* HotelChecker.__init__ on a sheet, lines 124-129
Constructed(values) ==
    /\ sheet = <<HeaderRow>> \o values
    /\ rows = _load_rows(sheet)

NoCallYet ==
    /\ result = Pending
    /\ prev = Pending
    /\ matches = << >>
    /\ searched = FALSE
    /\ IdleExcept("checker")

ShortSheet ==
    /\ \E values \in SeqsUpTo(SheetRowPool, MaxRows) : Constructed(values)
    /\ \E q \in QueryPool : input_name_en = q[1] /\ input_addr_ka = q[2]

LongSheet ==
    /\ \E values \in SeqsUpTo(LongRowPool, MaxLongRows) : Constructed(values)
    /\ \E q \in LongQueryPool : input_name_en = q[1] /\ input_addr_ka = q[2]

Init == (ShortSheet \/ LongSheet) /\ NoCallYet

\* the cache turned round in place
Check_ReversesCache ==
    /\ result' = check(rows, input_name_en, input_addr_ka)
    /\ prev' = result
    /\ rows' = [i \in 1..Len(rows) |-> rows[Len(rows) + 1 - i]]
    /\ UNCHANGED <<sheet, input_name_en, input_addr_ka, matches, searched>>
    /\ Frame("checker")

\* a call of HotelChecker.check, lines 172-234, with the arguments of the
\* call before it
Check ==
    /\ result' = check(rows, input_name_en, input_addr_ka)
    /\ prev' = result
    /\ UNCHANGED <<sheet, rows, input_name_en, input_addr_ka, matches, searched>>
    /\ Frame("checker")

\* the search of search_collect_addr, lines 305-306: the sheet is read and
\* best_matches called with the two texts of the user
BestMatches ==
    /\ input_name_en # None /\ input_addr_ka # None
    /\ matches' = best_matches(read_all_hotels(sheet), input_name_en,
                               input_addr_ka, CandCap)
    /\ searched' = TRUE
    /\ UNCHANGED <<sheet, rows, input_name_en, input_addr_ka, result, prev>>
    /\ Frame("checker")

Next == Check

Spec == Init /\ [][Next]_vars

\* the long sheets alone, searched by check and by best_matches
InitCap == LongSheet /\ NoCallYet

NextCap == Check \/ BestMatches

SpecCap == InitCap /\ [][NextCap]_vars

(***************************************************************************)
(* normalize_strict as a function of one argument: None and every str of   *)
(* at most MaxTextLen characters of TextChars.                             *)
(***************************************************************************)
TextChars == {"a", "A", "1", ge_q, " ", "TAB", "_", ".", "SQ", "LSQ"}

MaxTextLen == 3

InitText ==
    /\ text \in SeqsUpTo(TextChars, MaxTextLen) \cup {None}
    /\ strict = None
    /\ IdleExcept("text")

\* a call of normalize_strict, lines 41-47
NormalizeStrict ==
    /\ strict' = normalize_strict(text)
    /\ UNCHANGED text
    /\ Frame("text")

NextText == NormalizeStrict

SpecText == InitText /\ [][NextText]_vars

(***************************************************************************)
(* The similarity of lines 200-201 as a function of two str: every pair    *)
(* of str of at most MaxSimLen characters of SimChars.                     *)
(***************************************************************************)
SimChars == {"a", "b", "c"}

MaxSimLen == 3

InitSim ==
    /\ sim_a \in SeqsUpTo(SimChars, MaxSimLen)
    /\ sim_b \in SeqsUpTo(SimChars, MaxSimLen)
    /\ sim = << >>
    /\ IdleExcept("sim")

\* SequenceMatcher(None, normalize_soft(a), normalize_soft(b)).ratio() with
\* the field of the row as a and the field of the query as b
Similarity ==
    /\ sim' = ratio(normalize_soft(sim_a), normalize_soft(sim_b))
    /\ UNCHANGED <<sim_a, sim_b>>
    /\ Frame("sim")

NextSim == Similarity

SpecSim == InitSim /\ [][NextSim]_vars

(***************************************************************************)
(* The score of line 204 as a function of the two similarities, next to    *)
(* check on the long sheets.  ratio() returns 2 * M / T for two texts of   *)
(* T characters together of which M are matched, M <= T / 2, and 1 for two *)
(* empty texts: the similarities are these fractions for every T up to     *)
(* MaxSimTotal, and the one of a text of LongLen characters against the    *)
(* same text with one character more, in one of the two fields.            *)
(***************************************************************************)
MaxSimTotal == 8

LongLen == 4000

ShortSims ==
    {<<1, 1>>}
        \cup {<<2 * p[1], p[2]>> :
                  p \in {q \in (0..MaxSimTotal) \X (1..MaxSimTotal) : 2 * q[1] <= q[2]}}

LongSims == {<<2 * LongLen, 2 * LongLen + 1>>}

InitScore ==
    \/ LongSheet /\ NoCallYet
    \/ /\ row_name_sim \in ShortSims \cup LongSims
       /\ row_addr_sim \in ShortSims \cup LongSims
       /\ row_name_sim \in ShortSims \/ row_addr_sim \in ShortSims
       /\ row_score = -1
       /\ IdleExcept("score")

\* line 204 for a row whose similarities lines 200-201 have computed
Score ==
    /\ row_name_sim # << >>
    /\ row_score' = CombinedScore(row_name_sim, row_addr_sim)
    /\ UNCHANGED <<row_name_sim, row_addr_sim>>
    /\ Frame("score")

NextScore == Check \/ Score

SpecScore == InitScore /\ [][NextScore]_vars

(***************************************************************************)
(* The webhook bot, telegram_hotel_booking_bot.py: the handlers that       *)
(* _build_and_start_application registers (lines 193-239) and              *)
(* application.process_update on the updates of one user.                  *)
(*                                                                         *)
(* An update is [kind, text]: a message with its text, or a callback query *)
(* with its data in text.  The texts are tokens: the commands, the three   *)
(* buttons of main_menu (lines 155-162) and two plain texts.               *)
(*                                                                         *)
(* process_update of python-telegram-bot walks the handlers of a group in  *)
(* the order they were added and gives the update to the first one whose   *)
(* check_update accepts it; no other handler of the group sees it.  All    *)
(* handlers here are added to the default group.  A ConversationHandler    *)
(* accepts an update of a user in no conversation if an entry point        *)
(* accepts it, and of a user in a state if a handler of the state or else  *)
(* a fallback accepts it; the value its callback returns is the new state, *)
(* END removes the conversation, None keeps the state.                     *)
(***************************************************************************)
BTN_SEARCH == "BTN_SEARCH"
BTN_START == "BTN_START"
BTN_HELP == "BTN_HELP"

CommandTexts == {"/start", "/cancel", "/other"}

ButtonTexts == {BTN_SEARCH, BTN_START, BTN_HELP}

PlainTexts == {"hotel", "street"}

CallbackData == {"pick_0", "pick_none", "new_ok", "new_cancel"}

Updates ==
    [kind : {"message"}, text : CommandTexts \cup ButtonTexts \cup PlainTexts]
        \cup [kind : {"callback_query"}, text : CallbackData]

\* update.effective_message.text as a str
TextOf(t) ==
    CASE t = "hotel" -> N_ab
      [] t = "street" -> A_full1
      [] t = "far" -> N_xy
      [] OTHER -> <<t>>

END == "END"

\* a handler: its class, its filter (command, pattern or filter expression)
\* and its callback; a ConversationHandler carries its name as filter
Handler(type, filter, callback) ==
    [type |-> type, filter |-> filter, callback |-> callback]

\* application.add_handler in the order of lines 193-239
Handlers ==
    << Handler("CommandHandler", "start", "start_cmd"),
       Handler("MessageHandler", "Regex_help", "help_cmd"),
       Handler("MessageHandler", "Regex_search", "search_entry"),
       Handler("MessageHandler", "Regex_start", "new_entry"),
       Handler("ConversationHandler", "search_conv", ""),
       Handler("ConversationHandler", "new_conv", ""),
       Handler("MessageHandler", "COMMAND", "unknown_cmd"),
       Handler("MessageHandler", "ALL", "fallback_router") >>

\* entry_points of the two conversations, lines 201 and 219
EntryPoints(conv) ==
    IF conv = "search_conv"
    THEN <<Handler("MessageHandler", "Regex_search", "search_entry")>>
    ELSE <<Handler("MessageHandler", "Regex_start", "new_entry")>>

TextHandler(callback) == Handler("MessageHandler", "TEXT_NOT_COMMAND", callback)

\* states of the two conversations, lines 202-209 and 220-230
StateHandlers(conv, state) ==
    CASE state = "S_NAME" -> <<TextHandler("search_collect_name")>>
      [] state = "S_ADDR" -> <<TextHandler("search_collect_addr")>>
      [] state = "S_CONFIRM" ->
            << Handler("CallbackQueryHandler", "pick_digits", "search_pick_suggestion"),
               Handler("CallbackQueryHandler", "pick_none", "search_decline_suggestions") >>
      [] state = "N_NAME" -> <<TextHandler("new_collect_name")>>
      [] state = "N_ADDR" -> <<TextHandler("new_collect_addr")>>
      [] state = "N_CONTACT" -> <<TextHandler("new_collect_contact")>>
      [] state = "N_PHONE" -> <<TextHandler("new_collect_phone")>>
      [] state = "N_NOTES" -> <<TextHandler("new_collect_notes")>>
      [] state = "N_CONFIRM" ->
            << Handler("CallbackQueryHandler", "new_ok", "new_confirm_yes"),
               Handler("CallbackQueryHandler", "new_cancel", "new_confirm_no") >>
      [] OTHER -> << >>

\* fallbacks of the two conversations, lines 211 and 231
Fallbacks(conv) == <<Handler("CommandHandler", "cancel", "cancel_any")>>

\* the filters of lines 194-239 on the text of a message
FilterAccepts(filter, t) ==
    CASE filter = "Regex_help" -> t = BTN_HELP
      [] filter = "Regex_search" -> t = BTN_SEARCH
      [] filter = "Regex_start" -> t = BTN_START
      [] filter = "TEXT_NOT_COMMAND" -> t \notin CommandTexts
      [] filter = "COMMAND" -> t \in CommandTexts
      [] filter = "ALL" -> TRUE

\* the patterns of lines 206-207 and 226-227 on the data of a callback query
PatternAccepts(pattern, data) ==
    IF pattern = "pick_digits" THEN data = "pick_0" ELSE data = pattern

\* check_update of a CommandHandler, MessageHandler or CallbackQueryHandler
Accepts(h, u) ==
    CASE h.type = "CommandHandler" ->
            u.kind = "message" /\ u.text = IF h.filter = "start" THEN "/start" ELSE "/cancel"
      [] h.type = "MessageHandler" ->
            u.kind = "message" /\ FilterAccepts(h.filter, u.text)
      [] h.type = "CallbackQueryHandler" ->
            u.kind = "callback_query" /\ PatternAccepts(h.filter, u.text)
      [] OTHER -> FALSE

\* the first handler of the list hs that accepts u, << >> if none does
FirstAccepting(hs, u) ==
    LET hits == {i \in 1..Len(hs) : Accepts(hs[i], u)}
    IN  IF hits = {} THEN << >>
        ELSE <<hs[CHOOSE i \in hits : \A j \in hits : i <= j]>>

\* check_update of a ConversationHandler for a user in the given state
ConversationAccepts(conv, state, u) ==
    IF state = "None" THEN FirstAccepting(EntryPoints(conv), u)
    ELSE FirstAccepting(StateHandlers(conv, state) \o Fallbacks(conv), u)

\* check_update of any registered handler: the handler whose callback runs
CheckUpdate(h, convs, u) ==
    IF h.type = "ConversationHandler"
    THEN ConversationAccepts(h.filter, convs[h.filter], u)
    ELSE IF Accepts(h, u) THEN <<h>> ELSE << >>

\* the position in Handlers of the handler that gets u, 0 if none does
Dispatch(convs, u) ==
    LET hits == {i \in 1..Len(Handlers) : CheckUpdate(Handlers[i], convs, u) # << >>}
    IN  IF hits = {} THEN 0 ELSE CHOOSE i \in hits : \A j \in hits : i <= j

\* d[k] = v on the dict d
SetKey(d, k, v) == (k :> v) @@ d

\* d.get(k) with "" for a missing key
GetKey(d, k) == IF k \in DOMAIN d THEN d[k] ELSE << >>

\* what a callback does: the user_data and the worksheet it leaves and the
\* value it returns
Outcome(ud, sh, ret) == [user_data |-> ud, ws |-> sh, ret |-> ret]

\* lines 308-349 of search_collect_addr for the matches found
SearchOutcome(ud, sh, found) ==
    IF found = << >>
    THEN Outcome(SetKey(SetKey(ud, "expected_name", ud["search_name_en"]),
                        "expected_addr", ud["search_addr_ka"]), sh, END)
    ELSE IF found[1][2] >= 90 THEN Outcome(ud, sh, END)
    ELSE Outcome(SetKey(ud, "search_suggestions", found), sh, "S_CONFIRM")

\* lines 305-306 for the address addr
SearchSheet(ud, sh, addr) ==
    SearchOutcome(ud, sh, best_matches(read_all_hotels(sh), ud["search_name_en"], addr, 5))

\* search_collect_addr, lines 300-349
search_collect_addr(u, ud, sh) ==
    SearchSheet(SetKey(ud, "search_addr_ka", Strip(TextOf(u.text))), sh,
                Strip(TextOf(u.text)))

\* a callback that raised: process_update hands the exception to the error
\* handlers and the ConversationHandler keeps the state it had
KeyError == "KeyError"

\* the row append_new_row writes for the payload of new_confirm_yes,
\* lines 108-122 and 468-477
NewRow(ud) ==
    << ud["new_name"], ud["new_addr"], <<"N", "E", "W">>, GetKey(ud, "notes"),
       GetKey(ud, "contact_name"), GetKey(ud, "contact_phone"), GetKey(ud, "notes") >>

\* new_collect_notes, lines 438-462: the preview reads new_name and new_addr
\* after notes was stored
new_collect_notes(u, ud, sh) ==
    IF {"new_name", "new_addr"} \subseteq DOMAIN ud
    THEN Outcome(SetKey(ud, "notes", Strip(TextOf(u.text))), sh, "N_CONFIRM")
    ELSE Outcome(SetKey(ud, "notes", Strip(TextOf(u.text))), sh, KeyError)

\* new_confirm_yes, lines 464-483: the payload reads new_name and new_addr
\* before append_new_row is called
new_confirm_yes(ud, sh) ==
    IF {"new_name", "new_addr"} \subseteq DOMAIN ud
    THEN Outcome(<< >>, Append(sh, NewRow(ud)), END)
    ELSE Outcome(ud, sh, KeyError)

new_confirm_no_Appends(ud, sh) ==
    IF {"new_name", "new_addr"} \subseteq DOMAIN ud
    THEN Outcome(<< >>, Append(sh, NewRow(ud)), END)
    ELSE Outcome(<< >>, sh, END)

\* new_confirm_no, lines 485-490
new_confirm_no(ud, sh) == Outcome(<< >>, sh, END)

\* cancel_any, lines 492-495
cancel_any(ud, sh) == Outcome(<< >>, sh, END)

\* the callbacks, lines 259-495
Run(callback, u, ud, sh) ==
    CASE callback \in {"start_cmd", "help_cmd", "unknown_cmd", "fallback_router"} ->
            Outcome(ud, sh, "None")
      [] callback = "search_entry" -> Outcome(<< >>, sh, "S_NAME")
      [] callback = "search_collect_name" ->
            Outcome(SetKey(ud, "search_name_en", Strip(TextOf(u.text))), sh, "S_ADDR")
      [] callback = "search_collect_addr" -> search_collect_addr(u, ud, sh)
      [] callback = "search_pick_suggestion" -> Outcome(ud, sh, END)
      [] callback = "search_decline_suggestions" ->
            Outcome(SetKey(SetKey(ud, "expected_name", GetKey(ud, "search_name_en")),
                           "expected_addr", GetKey(ud, "search_addr_ka")), sh, END)
      [] callback = "new_entry" -> Outcome(ud, sh, "N_NAME")
      [] callback = "new_collect_name" ->
            Outcome(SetKey(ud, "new_name", Strip(TextOf(u.text))), sh, "N_ADDR")
      [] callback = "new_collect_addr" ->
            Outcome(SetKey(ud, "new_addr", Strip(TextOf(u.text))), sh, "N_CONTACT")
      [] callback = "new_collect_contact" ->
            Outcome(SetKey(ud, "contact_name", Strip(TextOf(u.text))), sh, "N_PHONE")
      [] callback = "new_collect_phone" ->
            Outcome(SetKey(ud, "contact_phone", Strip(TextOf(u.text))), sh, "N_NOTES")
      [] callback = "new_collect_notes" -> new_collect_notes(u, ud, sh)
      [] callback = "new_confirm_yes" -> new_confirm_yes(ud, sh)
      [] callback = "new_confirm_no" -> new_confirm_no(ud, sh)
      [] callback = "cancel_any" -> cancel_any(ud, sh)

\* the state a ConversationHandler keeps after a callback returned ret
NewState(state, ret) ==
    IF ret = END THEN "None" ELSE IF ret \in {"None", KeyError} THEN state ELSE ret

MaxUpdates == 3

\* the worksheet the bot works on
BotSheet == << HeaderRow, <<N_ab, A_full1, C_note>> >>

InitBot ==
    /\ conversations = NoConversation
    /\ user_data = << >>
    /\ ws = BotSheet
    /\ handled = << >>
    /\ IdleExcept("bot")

\* process_update after the callback of handler h, found through the
\* registered handler reg, has run with outcome out: the callback, what it
\* left and the conversation states
Handled(reg, h, out) ==
    [callback |-> h.callback,
     user_data |-> out.user_data,
     ws |-> out.ws,
     conversations |->
         IF reg.type = "ConversationHandler"
         THEN [conversations EXCEPT ![reg.filter] = NewState(@, out.ret)]
         ELSE conversations]

\* the callback of handler h runs on the update u
RunHandler(reg, h, u) == Handled(reg, h, Run(h.callback, u, user_data, ws))

\* what process_update does with the update u; the callback is "" when no
\* handler accepts u
Processed(u) ==
    LET i == Dispatch(conversations, u)
    IN  IF i = 0
        THEN [callback |-> "", user_data |-> user_data, ws |-> ws,
              conversations |-> conversations]
        ELSE RunHandler(Handlers[i], CheckUpdate(Handlers[i], conversations, u)[1], u)

\* the state after the update u was processed with the effect p
Record(u, p) ==
    /\ user_data' = p.user_data
    /\ ws' = p.ws
    /\ conversations' = p.conversations
    /\ handled' = Append(handled, [update |-> u, callback |-> p.callback,
                                   conversations |-> p.conversations])

\* application.process_update(update), line 525, for one update of the user
ProcessUpdate ==
    /\ Len(handled) < MaxUpdates
    /\ \E u \in Updates : Record(u, Processed(u))
    /\ Frame("bot")

NextBot == ProcessUpdate

SpecBot == InitBot /\ [][NextBot]_vars

(***************************************************************************)
(* The new-entry conversation, lines 217-235 and 388-495.  The handler     *)
(* new_conv is given updates of the user directly (check_update, then      *)
(* handle_update), next to the updates that reach a handler through        *)
(* process_update; so the conversation is followed from its entry point    *)
(* whatever the handlers registered before it do with the button.  Only    *)
(* the last update is kept in handled; the run ends when MaxAppended rows  *)
(* have been appended to the worksheet.                                    *)
(***************************************************************************)
MaxAppended == 1

NewUpdates ==
    [kind : {"message"}, text : {BTN_START, BTN_SEARCH, "/cancel", "hotel"}]
        \cup [kind : {"callback_query"}, text : {"new_ok", "new_cancel"}]

\* the position of new_conv in Handlers, line 235
NewConv == CHOOSE i \in 1..Len(Handlers) : Handlers[i].filter = "new_conv"

\* the state after the update u was processed with the effect p, the
\* update kept as the last one handled
Last(u, p) ==
    /\ user_data' = p.user_data
    /\ ws' = p.ws
    /\ conversations' = p.conversations
    /\ handled' = << [update |-> u, callback |-> p.callback,
                      conversations |-> p.conversations] >>

\* application.process_update(update), line 525
DispatchUpdate ==
    /\ Len(ws) < Len(BotSheet) + MaxAppended
    /\ \E u \in NewUpdates : Last(u, Processed(u))
    /\ Frame("bot")

\* new_conv.check_update(update) accepts and new_conv.handle_update runs
NewConvUpdate ==
    /\ Len(ws) < Len(BotSheet) + MaxAppended
    /\ \E u \in NewUpdates :
          /\ ConversationAccepts("new_conv", conversations["new_conv"], u) # << >>
          /\ Last(u, RunHandler(Handlers[NewConv],
                 ConversationAccepts("new_conv", conversations["new_conv"], u)[1], u))
    /\ Frame("bot")

NextNew == DispatchUpdate \/ NewConvUpdate

SpecNew == InitBot /\ [][NextNew]_vars

(***************************************************************************)
(* The search conversation, lines 199-215 and 283-384: the handler         *)
(* search_conv is given the updates of the user directly, on worksheets of *)
(* up to MaxSearchRows hotels.  The user presses the search button when in *)
(* no conversation and answers with one of three texts, /cancel or a       *)
(* button of the suggestions.                                              *)
(***************************************************************************)
MaxSearchRows == 2

SearchRowPool ==
    { <<N_ab, A_full1, C_note>>, <<N_ba, A_full2, Empty>>, <<N_xy, A_gamziri, C_note>> }

SearchSheets == {<<HeaderRow>> \o body : body \in SeqsUpTo(SearchRowPool, MaxSearchRows)}

SearchUpdates(state) ==
    IF state = "None"
    THEN {[kind |-> "message", text |-> BTN_SEARCH]}
    ELSE [kind : {"message"}, text : {"hotel", "street", "far", "/cancel"}]
             \cup [kind : {"callback_query"}, text : {"pick_0", "pick_none"}]

\* the position of search_conv in Handlers, line 215
SearchConv == CHOOSE i \in 1..Len(Handlers) : Handlers[i].filter = "search_conv"

InitSearch ==
    /\ conversations = NoConversation
    /\ user_data = << >>
    /\ ws \in SearchSheets
    /\ handled = << >>
    /\ IdleExcept("bot")

\* search_conv.check_update(update) accepts and search_conv.handle_update runs
SearchConvUpdate ==
    /\ \E u \in SearchUpdates(conversations["search_conv"]) :
          /\ ConversationAccepts("search_conv", conversations["search_conv"], u) # << >>
          /\ Last(u, RunHandler(Handlers[SearchConv],
                 ConversationAccepts("search_conv", conversations["search_conv"], u)[1], u))
    /\ Frame("bot")

NextSearch == SearchConvUpdate

SpecSearch == InitSearch /\ [][NextSearch]_vars

(***************************************************************************)
(* The questionnaire of main.py, lines 20-63.  bot.polling hands every     *)
(* message to process_new_messages of pyTelegramBotAPI, one message at a   *)
(* time: the handlers registered with register_next_step_handler for the   *)
(* chat of the message are taken off and run on it, and only a message     *)
(* with no such handler is offered to the command handler of /start.  A    *)
(* handler that raises ends there; polling(non_stop=True) goes on with the *)
(* next message.  bot.send_message and sheet.append_row are calls to       *)
(* Telegram and to Google Sheets and either return or raise.               *)
(*                                                                         *)
(* A message is [chat, text, first_name]; the texts of a chat are /start   *)
(* and two texts of its own, so a value in a row tells the chat it was     *)
(* entered in.  The clock counts the messages and is what datetime.now()   *)
(* reads.                                                                  *)
(***************************************************************************)
MaxMessages == 8

Chats == {"chat1", "chat2"}

TextsOf(c) == IF c = "chat1" THEN {"/start", "n1", "a1"} ELSE {"/start", "n2", "a2"}

FirstNameOf(c) == IF c = "chat1" THEN "Ann" ELSE "Bob"

Messages ==
    UNION {[chat : {c}, text : TextsOf(c), first_name : {FirstNameOf(c)}] : c \in Chats}

\* the call of a handler that raises, if any
Failures == {"none", "send_message", "append_row"}

\* the globals a handler works on, with the messages it sent and the
\* exception it raised
Globals(ud, hs, sh, sent, raised) ==
    [user_data |-> ud, next_step_handlers |-> hs, sheet |-> sh,
     sent |-> sent, raised |-> raised]

Raise(g, exception) == [g EXCEPT !.raised = exception]

\* bot.send_message(message.chat.id, text)
send_message(g, chat, reply) == [g EXCEPT !.sent = Append(@, <<chat, reply>>)]

\* bot.register_next_step_handler(message, callback)
register_next_step_handler(g, message, callback) ==
    [g EXCEPT !.next_step_handlers =
        SetKey(@, message.chat, Append(GetKey(@, message.chat), callback))]

\* a start that drops what an earlier conversation of the chat left
start_DropsEntry(message, g, fail) ==
    IF fail = "send_message" THEN Raise(g, "send_message")
    ELSE register_next_step_handler(
             send_message([g EXCEPT !.user_data =
                               [c \in DOMAIN @ \ {message.chat} |-> @[c]]],
                          message.chat, "ask_hotel_name"),
             message, "get_hotel_name")

\* start, lines 23-26
start(message, g, fail) ==
    IF fail = "send_message" THEN Raise(g, "send_message")
    ELSE register_next_step_handler(send_message(g, message.chat, "ask_hotel_name"),
                                    message, "get_hotel_name")

\* user_data rebound to a dict of the one chat
get_hotel_name_RebindsDict(message, g, fail) ==
    LET g1 == [g EXCEPT !.user_data =
                   SetKey(<< >>, message.chat, SetKey(<< >>, "hotel_name", message.text))]
    IN  IF fail = "send_message" THEN Raise(g1, "send_message")
        ELSE register_next_step_handler(send_message(g1, message.chat, "ask_address"),
                                        message, "get_address")

\* get_hotel_name, lines 28-31
get_hotel_name(message, g, fail) ==
    LET g1 == [g EXCEPT !.user_data =
                   SetKey(@, message.chat, SetKey(<< >>, "hotel_name", message.text))]
    IN  IF fail = "send_message" THEN Raise(g1, "send_message")
        ELSE register_next_step_handler(send_message(g1, message.chat, "ask_address"),
                                        message, "get_address")

\* user_data[message.chat.id][key] = value, lines 34, 39, 44 and 45
SetField(g, chat, key, value) ==
    [g EXCEPT !.user_data = SetKey(@, chat, SetKey(@[chat], key, value))]

\* get_address, lines 33-36
get_address(message, g, fail) ==
    IF message.chat \notin DOMAIN g.user_data THEN Raise(g, "KeyError")
    ELSE IF fail = "send_message"
    THEN Raise(SetField(g, message.chat, "address", message.text), "send_message")
    ELSE register_next_step_handler(
             send_message(SetField(g, message.chat, "address", message.text),
                          message.chat, "ask_comment"),
             message, "get_comment")

\* get_comment, lines 38-41
get_comment(message, g, fail) ==
    IF message.chat \notin DOMAIN g.user_data THEN Raise(g, "KeyError")
    ELSE IF fail = "send_message"
    THEN Raise(SetField(g, message.chat, "comment", message.text), "send_message")
    ELSE register_next_step_handler(
             send_message(SetField(g, message.chat, "comment", message.text),
                          message.chat, "ask_agent"),
             message, "get_agent")

AgentRow_AddressFirst(data, message) ==
    << data["address"], data["hotel_name"], data["comment"], data["agent"],
       message.first_name, data["date"] >>

\* the row of lines 50-57
AgentRow(data, message) ==
    << data["hotel_name"], data["address"], data["comment"], data["agent"],
       message.first_name, data["date"] >>

\* del user_data[message.chat.id], line 60
Del(g, chat) ==
    [g EXCEPT !.user_data = [c \in DOMAIN @ \ {chat} |-> @[c]]]

\* lines 47-60 of get_agent, after agent and date were stored
AppendAgentRow(message, g, fail) ==
    IF ~({"hotel_name", "address", "comment"} \subseteq DOMAIN g.user_data[message.chat])
    THEN Raise(g, "KeyError")
    ELSE IF fail = "append_row" THEN Raise(g, "append_row")
    ELSE IF fail = "send_message"
    THEN Raise([g EXCEPT !.sheet =
                    Append(@, AgentRow(g.user_data[message.chat], message))],
               "send_message")
    ELSE Del(send_message([g EXCEPT !.sheet =
                  Append(@, AgentRow(g.user_data[message.chat], message))],
                  message.chat, "success"), message.chat)

\* get_agent, lines 43-60, at the time t
get_agent(message, g, fail, t) ==
    IF message.chat \notin DOMAIN g.user_data THEN Raise(g, "KeyError")
    ELSE AppendAgentRow(message,
             SetField(SetField(g, message.chat, "agent", message.text),
                      message.chat, "date", t), fail)

\* the call of a next step handler
Call(callback, message, g, fail, t) ==
    CASE callback = "get_hotel_name" -> get_hotel_name(message, g, fail)
      [] callback = "get_address" -> get_address(message, g, fail)
      [] callback = "get_comment" -> get_comment(message, g, fail)
      [] callback = "get_agent" -> get_agent(message, g, fail, t)

\* the handlers taken off for the message run on it one after the other
RECURSIVE CallAll(_, _, _, _, _)
CallAll(callbacks, message, g, fail, t) ==
    IF callbacks = << >> THEN g
    ELSE CallAll(Tail(callbacks), message,
                 Call(Head(callbacks), message, [g EXCEPT !.raised = "none"], fail, t),
                 fail, t)

\* the handlers process_new_messages runs on the message: the next step
\* handlers of its chat, else start on the command /start
HandlersFor(message, hs) ==
    IF GetKey(hs, message.chat) # << >> THEN GetKey(hs, message.chat)
    ELSE IF message.text = "/start" THEN <<"start">> ELSE << >>

\* process_new_messages on one message
process_new_messages(message, g, fail, t) ==
    IF GetKey(g.next_step_handlers, message.chat) # << >>
    THEN CallAll(GetKey(g.next_step_handlers, message.chat), message,
                 [g EXCEPT !.next_step_handlers =
                      [c \in DOMAIN @ \ {message.chat} |-> @[c]]], fail, t)
    ELSE IF message.text = "/start" THEN start(message, g, fail)
    ELSE g

InitMain ==
    /\ main_user_data = << >>
    /\ next_step_handlers = << >>
    /\ main_sheet = << >>
    /\ clock = 0
    /\ step = << >>
    /\ IdleExcept("main")

\* the globals after the message was processed with the outcome g
Polled(message, ran, g) ==
    /\ main_user_data' = g.user_data
    /\ next_step_handlers' = g.next_step_handlers
    /\ main_sheet' = g.sheet
    /\ clock' = clock + 1
    /\ step' = [message |-> message, ran |-> ran, sent |-> g.sent,
                raised |-> g.raised]

\* bot.polling(non_stop=True), line 63, receives one message
Polling ==
    /\ clock < MaxMessages
    /\ \E message \in Messages, fail \in Failures :
          Polled(message, HandlersFor(message, next_step_handlers),
                 process_new_messages(message,
                     Globals(main_user_data, next_step_handlers, main_sheet,
                             << >>, "none"), fail, clock + 1))
    /\ Frame("main")

NextMain == Polling

SpecMain == InitMain /\ [][NextMain]_vars

(***************************************************************************)
(* Import of the bot module, telegram_hotel_booking_bot.py lines 45-253    *)
(* and after: the importing thread runs the statements of the module from  *)
(* top to bottom, start_background_loop() at line 253 starts the           *)
(* background thread and waits for _app_ready; the background thread runs  *)
(* _build_and_start_application.  A name a thread reads in the module's    *)
(* globals before its def statement has run raises NameError there.        *)
(***************************************************************************)
EnvNames == <<"TELEGRAM_TOKEN", "APP_BASE_URL", "SPREADSHEET_ID",
              "GOOGLE_SERVICE_ACCOUNT_JSON">>

\* values of an environment variable: unset or empty, blank, set
EnvValues == {<< >>, <<" ">>, <<"x">>}

\* values of APP_BASE_URL, whose trailing slashes are cut
UrlValues == EnvValues \cup {<<"/">>, <<"x", "/">>}

RECURSIVE RStripSlash(_)
\* str.rstrip("/")
RStripSlash(s) ==
    IF s # << >> /\ s[Len(s)] = "/" THEN RStripSlash(SubSeq(s, 1, Len(s) - 1)) ELSE s

\* the four module constants of lines 45-48
EnvRead(e) ==
    [i \in 1..4 |-> IF i = 2 THEN RStripSlash(Strip(e[i])) ELSE Strip(e[i])]

\* the def statements of lines 259-495
HandlerNames ==
    {"start_cmd", "help_cmd", "unknown_cmd", "fallback_router",
     "search_entry", "search_collect_name", "search_collect_addr",
     "search_pick_suggestion", "search_decline_suggestions",
     "new_entry", "new_collect_name", "new_collect_addr", "new_collect_contact",
     "new_collect_phone", "new_collect_notes", "new_confirm_yes",
     "new_confirm_no", "cancel_any"}

\* the callbacks a handler names: the globals its add_handler call reads
NamesRead(h) ==
    IF h.type = "ConversationHandler"
    THEN LET hs == EntryPoints(h.filter) \o Fallbacks(h.filter)
                   \o (IF h.filter = "search_conv"
                       THEN StateHandlers(h.filter, "S_NAME")
                            \o StateHandlers(h.filter, "S_ADDR")
                            \o StateHandlers(h.filter, "S_CONFIRM")
                       ELSE StateHandlers(h.filter, "N_NAME")
                            \o StateHandlers(h.filter, "N_ADDR")
                            \o StateHandlers(h.filter, "N_CONTACT")
                            \o StateHandlers(h.filter, "N_PHONE")
                            \o StateHandlers(h.filter, "N_NOTES")
                            \o StateHandlers(h.filter, "N_CONFIRM"))
         IN  {hs[i].callback : i \in 1..Len(hs)}
    ELSE {h.callback}

InitStart ==
    /\ env \in {e \in [1..4 -> UrlValues] : \A i \in {1, 3, 4} : e[i] \in EnvValues}
    /\ main_pc = "env"
    /\ bg_pc = "unborn"
    /\ defined = {}
    /\ added = 0
    /\ app_ready = FALSE
    /\ IdleExcept("start")

\* the next statement of the importing thread
MainStep ==
    /\ CASE main_pc = "env" ->
              \* lines 45-57: a missing variable raises RuntimeError
              /\ main_pc' = IF \E i \in 1..4 : EnvRead(env)[i] = << >>
                            THEN "raised" ELSE "call"
              /\ UNCHANGED <<bg_pc, defined, app_ready>>
         [] main_pc = "call" ->
              \* lines 59-253: the helpers are defined, start_background_loop
              \* is called and starts the thread, lines 248-250
              /\ main_pc' = "wait"
              /\ bg_pc' = "build"
              /\ UNCHANGED <<defined, app_ready>>
         [] main_pc = "wait" ->
              \* _app_ready.wait(), line 251, returns once the event is set
              /\ app_ready
              /\ main_pc' = "handlers"
              /\ UNCHANGED <<bg_pc, defined, app_ready>>
         [] main_pc = "handlers" ->
              \* the def statements of lines 259-495
              /\ main_pc' = "imported"
              /\ defined' = HandlerNames
              /\ UNCHANGED <<bg_pc, app_ready>>
         [] OTHER -> FALSE
    /\ UNCHANGED <<env, added>>
    /\ Frame("start")

\* the next statement of _build_and_start_application in the background
\* thread; an exception ends the thread
BgStep ==
    /\ CASE bg_pc = "build" ->
              \* line 190
              bg_pc' = "add" /\ UNCHANGED <<added, app_ready>>
         [] bg_pc = "add" ->
              \* lines 193-239, one add_handler call
              IF added = Len(Handlers)
              THEN bg_pc' = "initialize" /\ UNCHANGED <<added, app_ready>>
              ELSE IF NamesRead(Handlers[added + 1]) \subseteq defined
              THEN bg_pc' = "add" /\ added' = added + 1 /\ UNCHANGED app_ready
              ELSE bg_pc' = "crashed" /\ UNCHANGED <<added, app_ready>>
         [] bg_pc = "initialize" ->
              \* lines 242-243: the calls to Telegram succeed or raise
              bg_pc' \in {"set", "crashed"} /\ UNCHANGED <<added, app_ready>>
         [] bg_pc = "set" ->
              \* line 244
              bg_pc' = "finished" /\ app_ready' = TRUE /\ UNCHANGED added
         [] OTHER -> FALSE
    /\ UNCHANGED <<env, main_pc, defined>>
    /\ Frame("start")

NextStart == MainStep \/ BgStep

SpecStart == InitStart /\ [][NextStart]_vars

(***************************************************************************)
(* Claims about HotelChecker.check and best_matches.                       *)
(***************************************************************************)
Called == result.status # "pending"

\* what lines 185-217 establish about each cached row and the query:
\*   equals     the row equals the query after normalization
\*   ns, as     name and address similarity on the soft normalization
\*   entry      the candidate entry made for the row
\*   qualifies  score >= 0.70 or name >= 0.85 or address >= 0.85
RowFacts ==
    LET qname == normalize_strict(OrEmpty(input_name_en))
        qaddr == normalize_address(OrEmpty(input_addr_ka))
        sname == normalize_soft(OrEmpty(input_name_en))
        saddr == normalize_soft(OrEmpty(input_addr_ka))
    IN  [i \in 1..Len(rows) |->
            LET ns == ratio(normalize_soft(rows[i][1]), sname)
                as == ratio(normalize_soft(rows[i][2]), saddr)
                sc == RoundDiv(6000 * ns[1] * as[2] + 4000 * as[1] * ns[2],
                               ns[2] * as[2])
            IN  [equals |-> normalize_strict(rows[i][1]) = qname
                              /\ normalize_address(rows[i][2]) = qaddr,
                 ns |-> ns,
                 as |-> as,
                 entry |-> [hotel_name |-> Strip(rows[i][1]),
                            address    |-> Strip(rows[i][2]),
                            comment    |-> Strip(rows[i][3]),
                            score      |-> sc,
                            score_name |-> RoundDiv(10000 * ns[1], ns[2]),
                            score_addr |-> RoundDiv(10000 * as[1], as[2])],
                 qualifies |-> \/ sc >= 7000
                               \/ 100 * ns[1] >= 85 * ns[2]
                               \/ 100 * as[1] >= 85 * as[2]]]

\* the entry e is among the returned candidates
Shown(e) == \E k \in 1..Len(result.candidates) : result.candidates[k] = e

\* C1: if some row equals the query after normalization, check returns
\* "exact" with the row_dict of such a row and no candidates, however many
\* other rows qualify as similar.
C1_ExactPrecedence ==
    Called =>
        LET F == RowFacts
        IN  (\E i \in DOMAIN F : F[i].equals) =>
                /\ result.status = "exact"
                /\ result.candidates = << >>
                /\ \E i \in DOMAIN F : F[i].equals /\ result.exact_row = <<rows[i][4]>>

\* an exact result although another row passes the similarity rule
C1_Witness ==
    /\ result.status = "exact"
    /\ LET F == RowFacts
       IN  \E i, j \in DOMAIN F :
               F[i].equals /\ ~F[j].equals /\ F[j].qualifies /\ F[i].qualifies

\* C2: check returns "exact" only with the row_dict of a row whose
\* normalized name and address equal the query's; a row with a high score
\* and unequal normalized fields is at most a candidate.
C2_ExactOnlyByEquality ==
    Called =>
        LET F == RowFacts
        IN  /\ result.status = "exact" =>
                  \E i \in DOMAIN F : F[i].equals /\ result.exact_row = <<rows[i][4]>>
            /\ (\A i \in DOMAIN F : ~F[i].equals) =>
                  result.status # "exact" /\ result.exact_row = << >>

\* a row scoring above 0.90 that is shown as a candidate, not as exact
C2_Witness ==
    /\ result.status = "similar"
    /\ LET F == RowFacts
       IN  \E i \in DOMAIN F :
               F[i].entry.score > 9000 /\ ~F[i].equals /\ Shown(F[i].entry)

\* C3: a query whose name and address are empty, None or normalize to the
\* empty string gets status "none" on every row list _load_rows produces.
C3_EmptyQueryYieldsNone ==
    (Called /\ normalize_strict(OrEmpty(input_name_en)) = << >>
            /\ normalize_strict(OrEmpty(input_addr_ka)) = << >>)
        => result.status = "none"

\* C4: in the scored pass, when a field of a row and of the query are both
\* empty after soft normalization its similarity is 0, so no candidate has
\* a blank field matched against a blank query field with a similarity
\* above 0.
C4_EmptySimilarityZero ==
    (Called /\ result.status # "exact") =>
        LET F == RowFacts
        IN  /\ \A i \in DOMAIN F :
                  /\ (normalize_soft(rows[i][1]) = << >>
                        /\ normalize_soft(OrEmpty(input_name_en)) = << >>)
                      => F[i].ns[1] = 0
                  /\ (normalize_soft(rows[i][2]) = << >>
                        /\ normalize_soft(OrEmpty(input_addr_ka)) = << >>)
                      => F[i].as[1] = 0
            /\ \A k \in 1..Len(result.candidates) :
                  /\ (result.candidates[k].hotel_name = << >>
                        /\ normalize_soft(OrEmpty(input_name_en)) = << >>)
                      => result.candidates[k].score_name = 0
                  /\ (result.candidates[k].address = << >>
                        /\ normalize_soft(OrEmpty(input_addr_ka)) = << >>)
                      => result.candidates[k].score_addr = 0

\* C5: every candidate has score >= 0.70 or score_name >= 0.85 or
\* score_addr >= 0.85; a row with name similarity 0.50 and address
\* similarity 0.50 is not among the candidates.
C5_NoCandidateBelowFloor ==
    Called =>
        /\ \A k \in 1..Len(result.candidates) :
              \/ result.candidates[k].score >= 7000
              \/ result.candidates[k].score_name >= 8500
              \/ result.candidates[k].score_addr >= 8500
        /\ LET F == RowFacts
           IN  \A i \in DOMAIN F :
                   (F[i].ns = <<2, 4>> /\ F[i].as = <<4, 8>>) => ~Shown(F[i].entry)

\* a "similar" result on a sheet that holds a row with both similarities 0.50
C5_Witness ==
    /\ result.status = "similar"
    /\ LET F == RowFacts
       IN  \E i \in DOMAIN F : F[i].ns = <<2, 4>> /\ F[i].as = <<4, 8>>

\* C6: without an exact row, every row that passes one of the three
\* thresholds is among the candidates when at most 5 rows pass.
C6_OrThresholdInclusion ==
    Called =>
        LET F == RowFacts
        IN  (/\ \A i \in DOMAIN F : ~F[i].equals
             /\ Cardinality({i \in DOMAIN F : F[i].qualifies}) <= 5)
                => \A i \in DOMAIN F : F[i].qualifies => Shown(F[i].entry)

\* a candidate that passes by its name alone: combined score below 0.70
C6_Witness ==
    /\ result.status = "similar"
    /\ LET F == RowFacts
       IN  \E i \in DOMAIN F :
               /\ Shown(F[i].entry)
               /\ F[i].entry.score < 7000
               /\ 100 * F[i].ns[1] >= 85 * F[i].ns[2]
               /\ 100 * F[i].as[1] < 85 * F[i].as[2]

\* entry c stands before entry d in the descending order of the sort key
KeyAbove(c, d) ==
    \/ c.score > d.score
    \/ c.score = d.score /\ c.score_name > d.score_name
    \/ c.score = d.score /\ c.score_name = d.score_name /\ c.score_addr > d.score_addr

\* C7: check never returns more than 5 candidates, and when 5 or more rows
\* qualify the candidates are 5 rows highest in the sort order: no
\* qualifying row left out has a key above a candidate's; best_matches
\* never returns more than 5 pairs.
C7_CapInvariant ==
    /\ Called =>
          LET F == RowFacts
          IN  /\ Len(result.candidates) <= 5
              /\ (/\ \A i \in DOMAIN F : ~F[i].equals
                  /\ Cardinality({i \in DOMAIN F : F[i].qualifies}) >= 5) =>
                    /\ Len(result.candidates) = 5
                    /\ \A i \in DOMAIN F :
                          (F[i].qualifies /\ ~Shown(F[i].entry)) =>
                              \A k \in 1..Len(result.candidates) :
                                  ~KeyAbove(F[i].entry, result.candidates[k])
    /\ Len(matches) <= 5
    /\ searched => Len(matches) = IF Len(sheet) - 1 < 5 THEN Len(sheet) - 1 ELSE 5

\* more than 5 rows qualify and more than 5 hotels are scored; 5 are kept
C7_Witness ==
    /\ result.status = "similar"
    /\ Len(result.candidates) = 5
    /\ LET F == RowFacts
       IN  /\ Cardinality({i \in DOMAIN F : F[i].qualifies}) > 5
           /\ \E i \in DOMAIN F : F[i].qualifies /\ ~Shown(F[i].entry)
    /\ searched
    /\ Len(sheet) - 1 > 5
    /\ Len(matches) = 5

\* C8: consecutive candidates are non-increasing in score, on equal score
\* in score_name, on equal score and score_name in score_addr.
C8_MonotonicRanking ==
    Called =>
        \A k \in 1..(Len(result.candidates) - 1) :
            LET c == result.candidates[k]
                d == result.candidates[k + 1]
            IN  /\ c.score >= d.score
                /\ c.score = d.score => c.score_name >= d.score_name
                /\ (c.score = d.score /\ c.score_name = d.score_name)
                      => c.score_addr >= d.score_addr

\* two candidates of equal score put in the order of score_name, against
\* the order of their rows in the sheet
C8_Witness ==
    /\ result.status = "similar"
    /\ LET F == RowFacts
       IN  \E i, j \in DOMAIN F :
               /\ i < j
               /\ F[i].entry.score = F[j].entry.score
               /\ F[i].entry.score_name < F[j].entry.score_name
               /\ \E k \in 1..(Len(result.candidates) - 1) :
                     /\ result.candidates[k] = F[j].entry
                     /\ result.candidates[k + 1] = F[i].entry

\* the row list with the rows i and j exchanged
Swapped(s, i, j) ==
    [k \in 1..Len(s) |-> IF k = i THEN s[j] ELSE IF k = j THEN s[i] ELSE s[k]]

\* C9: without an exact row, the candidates list (the rows kept and their
\* order) is the same for every permutation of the row list; exchanges of
\* two rows generate the permutations.
C9_OrderIndependence ==
    (Called /\ result.status # "exact") =>
        \A i, j \in 1..Len(rows) :
            check(Swapped(rows, i, j), input_name_en, input_addr_ka).candidates
                = result.candidates

\* the address with every abbreviation of the table written out
FullWords(s) ==
    Replace(Replace(s, <<ge_q, ".">>, <<ge_q, ge_u, ge_ch, ge_a>>),
            <<ge_g, ge_a, ge_m, ge_z, ".">>,
            <<ge_g, ge_a, ge_m, ge_z, ge_i, ge_r, ge_i>>)

\* C10: normalize_address gives the same string for an address with an
\* abbreviation of the table and for the address with the full word, and
\* check returns "exact" when query and row differ only in that.
C10_AbbreviationEquivalence ==
    Called =>
        /\ normalize_address(OrEmpty(input_addr_ka))
              = normalize_address(FullWords(OrEmpty(input_addr_ka)))
        /\ \A i \in 1..Len(rows) :
              (/\ normalize_strict(rows[i][1]) = normalize_strict(OrEmpty(input_name_en))
               /\ FullWords(rows[i][2]) = FullWords(OrEmpty(input_addr_ka)))
                  => result.status = "exact"

\* C12: when several rows equal the query after normalization, exact_row
\* is the row_dict of the earliest of them in the order of the row list,
\* and no candidate is returned with it.
C12_FirstExactWins ==
    Called =>
        LET F == RowFacts
        IN  \A i \in DOMAIN F :
                (F[i].equals /\ \A j \in 1..(i - 1) : ~F[j].equals) =>
                    /\ result.status = "exact"
                    /\ result.exact_row = <<rows[i][4]>>
                    /\ result.candidates = << >>

\* two rows with different cells equal the query; the earlier one is returned
C12_Witness ==
    /\ result.status = "exact"
    /\ LET F == RowFacts
       IN  \E i, j \in DOMAIN F :
               /\ i < j /\ F[i].equals /\ F[j].equals
               /\ rows[i][4] # rows[j][4]
               /\ result.exact_row = <<rows[i][4]>>

\* check has been called at least twice
CalledTwice == prev.status # "pending"

C17_ResultShape ==
    Called =>
        LET F == RowFacts
            anyEqual == \E i \in DOMAIN F : F[i].equals
            anyQualifies == \E i \in DOMAIN F : F[i].qualifies
        IN  /\ result.status \in {"exact", "similar", "none"}
            /\ result.status = "exact" =>
                  result.exact_row # << >> /\ result.candidates = << >>
            /\ result.status = "similar" =>
                  /\ result.exact_row = << >>
                  /\ Len(result.candidates) >= 1
                  /\ Len(result.candidates) <= 5
            /\ result.status = "none" =>
                  result.exact_row = << >> /\ result.candidates = << >>
            /\ result.status = "similar" <=> (~anyEqual /\ anyQualifies)
            /\ result.status = "none" <=> (~anyEqual /\ ~anyQualifies)

\* "none" on a sheet whose rows resemble the query, none of them enough
C17_Witness ==
    /\ result.status = "none"
    /\ Len(rows) = 2
    /\ LET F == RowFacts
       IN  \A i \in DOMAIN F : F[i].entry.score > 0 /\ ~F[i].qualifies

\* C18: on an empty row list (a sheet without value rows, or with blank
\* rows alone) check returns "none" with no exact_row and no candidates
\* for every name and address, None and the empty string among them.
C18_EmptyRowList ==
    /\ Len(sheet) < 2 => rows = << >>
    /\ (Called /\ rows = << >>) =>
          /\ result.status = "none"
          /\ result.exact_row = << >>
          /\ result.candidates = << >>

\* a call with None for both arguments on a sheet with the header row alone
C18_Witness ==
    /\ Called
    /\ Len(sheet) = 1
    /\ rows = << >>
    /\ input_name_en = None /\ input_addr_ka = None
    /\ result.status = "none"

(***************************************************************************)
(* Claims about normalize_strict.                                          *)
(***************************************************************************)
Normalized == strict # None

\* straight and typographic, single and double quotation marks
QuotationMarks == {"DQ", "SQ", "LDQ", "RDQ", "LSQ", "RSQ"}

\* the text without its quotation marks
Unquoted(s) ==
    IF s = None THEN None ELSE SelectSeq(s, LAMBDA c : c \notin QuotationMarks)

\* C11: normalize_strict gives the same string for a text and for the text
\* with its quotation marks and apostrophes (straight or typographic,
\* single or double) taken out, wherever they stand.
C11_QuoteInsensitivity ==
    Normalized => strict = normalize_strict(Unquoted(text))

\* punctuation and symbol characters, and white space
SymbolChars == {"_", ".", ",", "-"} \cup QuotationMarks \cup SpaceChars

\* C14: the result of normalize_strict has only lower-case Latin letters,
\* digits, Georgian letters and spaces, no space at either end and no two
\* spaces in a row; no punctuation or symbol character is left in it, and
\* None or a text of punctuation and symbols alone gives the empty string.
C14_CanonicalForm ==
    Normalized =>
        /\ (text = None \/ \A i \in 1..Len(text) : text[i] \in SymbolChars)
              => strict = << >>
        /\ \A i \in 1..Len(strict) :
              strict[i] \in LatinLower \cup DigitChars \cup GeorgianChars \cup {" "}
        /\ strict # << >> => strict[1] # " " /\ strict[Len(strict)] # " "
        /\ \A i \in 1..(Len(strict) - 1) : ~(strict[i] = " " /\ strict[i + 1] = " ")

(***************************************************************************)
(* Claims about the similarity and the combined score.                     *)
(***************************************************************************)
Compared == sim # << >>

\* C15: the similarity of a and b is the similarity of b and a: with the
\* field of the row and the field of the query exchanged the value is the
\* same.
C15_Symmetry ==
    Compared => sim = ratio(normalize_soft(sim_b), normalize_soft(sim_a))

Scored == row_score # -1

\* the sum name_sim * 0.6 + addr_sim * 0.4 rounded to 4 decimals, in units
\* of 1/10000
WeightedSum(ns, as) ==
    RoundDiv(6000 * ns[1] * as[2] + 4000 * as[1] * ns[2], ns[2] * as[2])

\* every candidate of the result is the entry of a row, whose score is the
\* weighted sum of the similarities of the soft normalizations
ScoresFromSoftFields ==
    Called =>
        LET F == RowFacts
        IN  \A k \in 1..Len(result.candidates) :
                \E i \in DOMAIN F :
                    /\ result.candidates[k] = F[i].entry
                    /\ result.candidates[k].score = WeightedSum(F[i].ns, F[i].as)
                    /\ result.candidates[k].score >= 0
                    /\ result.candidates[k].score <= 10000

\* C16 as claimed: the score is the rounded weighted sum of the two
\* similarities of the soft normalizations, lies in [0, 1], and is 1 only
\* if both similarities are 1.
C16_ScoreOneOnlyIfBothOne ==
    /\ ScoresFromSoftFields
    /\ Scored =>
          /\ row_score = WeightedSum(row_name_sim, row_addr_sim)
          /\ row_score >= 0 /\ row_score <= 10000
          /\ row_score = 10000 =>
                /\ row_name_sim[1] = row_name_sim[2]
                /\ row_addr_sim[1] = row_addr_sim[2]

\* C16, amended: the score is the rounded weighted sum of the two
\* similarities of the soft normalizations and lies in [0, 1]; it is 1 when
\* both similarities are 1, and a score of 1 means the sum before rounding
\* is at least 0.99995.
C16_CombinedScore ==
    /\ ScoresFromSoftFields
    /\ Scored =>
          /\ row_score = WeightedSum(row_name_sim, row_addr_sim)
          /\ row_score >= 0 /\ row_score <= 10000
          /\ (row_name_sim[1] = row_name_sim[2] /\ row_addr_sim[1] = row_addr_sim[2])
                => row_score = 10000
          /\ row_score = 10000 =>
                2 * (6000 * row_name_sim[1] * row_addr_sim[2]
                     + 4000 * row_addr_sim[1] * row_name_sim[2])
                    >= 19999 * row_name_sim[2] * row_addr_sim[2]

\* a score of 1.0 for an address similarity below 1
C16_Witness ==
    /\ Scored
    /\ row_score = 10000
    /\ row_name_sim[1] = row_name_sim[2]
    /\ row_addr_sim[1] < row_addr_sim[2]

(***************************************************************************)
(* Claims about the webhook bot.                                           *)
(***************************************************************************)
Message(t) == [kind |-> "message", text |-> t]

\* the k-th update was a plain text, neither a command nor a button
PlainAt(k) ==
    k <= Len(handled) /\ handled[k].update.kind = "message"
        /\ handled[k].update.text \in PlainTexts

\* the user is in no conversation when the k-th update arrives
FreeAt(k) == k = 1 \/ handled[k - 1].conversations = NoConversation

\* C19: after the button text of the search, sent by a user who is in no
\* conversation, the search conversation is in S_NAME, the user's next
\* plain text is handled by search_collect_name and the one after it by
\* search_collect_addr; after the button text of Start the new-entry
\* conversation is in N_NAME and the next plain text is handled by
\* new_collect_name.
C19_ConversationEntry ==
    \A k \in 1..Len(handled) :
        /\ (FreeAt(k) /\ handled[k].update = Message(BTN_SEARCH)) =>
              /\ handled[k].conversations.search_conv = "S_NAME"
              /\ PlainAt(k + 1) => handled[k + 1].callback = "search_collect_name"
              /\ (PlainAt(k + 1) /\ PlainAt(k + 2))
                    => handled[k + 2].callback = "search_collect_addr"
        /\ (FreeAt(k) /\ handled[k].update = Message(BTN_START)) =>
              /\ handled[k].conversations.new_conv = "N_NAME"
              /\ PlainAt(k + 1) => handled[k + 1].callback = "new_collect_name"

\* C20: start_background_loop() returns: while the importing thread waits
\* for _app_ready the background thread is on its way through
\* _build_and_start_application or has set the event; it has not ended
\* without setting it.
C20_StartupTerminates ==
    main_pc = "wait" => (app_ready \/ bg_pc # "crashed")

\* the state of the new-entry conversation from which alone a state is
\* entered: the order of lines 220-229
Before(state) ==
    CASE state = "N_NAME" -> "None"
      [] state = "N_ADDR" -> "N_NAME"
      [] state = "N_CONTACT" -> "N_ADDR"
      [] state = "N_PHONE" -> "N_CONTACT"
      [] state = "N_NOTES" -> "N_PHONE"
      [] state = "N_CONFIRM" -> "N_NOTES"
      [] OTHER -> ""

\* the key k of user_data holds what it held before the step, if anything
Kept(k) ==
    k \in DOMAIN user_data' => k \in DOMAIN user_data /\ user_data'[k] = user_data[k]

\* one step of the bot, the update and the callback that ran being the
\* last entry of handled
AppendOnlyAfterConfirmation ==
    LET last == handled'[1]
        entered == Strip(TextOf(last.update.text))
        was == conversations["new_conv"]
        now == conversations'["new_conv"]
    IN  /\ ws' # ws =>
              /\ last.callback = "new_confirm_yes"
              /\ last.update = [kind |-> "callback_query", text |-> "new_ok"]
              /\ was = "N_CONFIRM"
              /\ now = "None"
              /\ user_data' = << >>
              /\ Len(ws') = Len(ws) + 1
              /\ SubSeq(ws', 1, Len(ws)) = ws
              /\ ws'[Len(ws')][1] = user_data["new_name"]
              /\ ws'[Len(ws')][2] = user_data["new_addr"]
        /\ (now # was /\ now # "None") => was = Before(now)
        /\ IF last.callback = "new_collect_name"
           THEN was = "N_NAME" /\ user_data'["new_name"] = entered
           ELSE Kept("new_name")
        /\ IF last.callback = "new_collect_addr"
           THEN was = "N_ADDR" /\ user_data'["new_addr"] = entered
           ELSE Kept("new_addr")
        /\ last.callback \in {"new_confirm_no", "cancel_any"} =>
              ws' = ws /\ user_data' = << >> /\ now = "None"
        /\ (was = "N_CONFIRM" /\ last.update.text = "new_cancel") =>
              last.callback = "new_confirm_no"
        /\ (was # "None" /\ last.update.text = "/cancel") =>
              last.callback = "cancel_any"

Searched == handled # << >> /\ handled[1].callback = "search_collect_addr"

\* C22: after search_collect_addr the conversation is in S_CONFIRM only
\* with suggestions that each reach the close-match floor of 70
\* (is_close_match, line 153); and when no hotel of the sheet reaches the
\* floor the conversation has ended with the name and the address searched
\* stored as expected_name and expected_addr.
C22_SimilarityFloor ==
    Searched =>
        LET name == user_data["search_name_en"]
            addr == user_data["search_addr_ka"]
            hotels == read_all_hotels(ws)
        IN  /\ conversations["search_conv"] = "S_CONFIRM" =>
                  \A i \in 1..Len(user_data["search_suggestions"]) :
                      user_data["search_suggestions"][i][2] >= 70
            /\ (\A i \in 1..Len(hotels) : HotelScore(hotels[i], name, addr) < 70) =>
                  /\ conversations["search_conv"] = "None"
                  /\ GetKey(user_data, "expected_name") = name
                  /\ GetKey(user_data, "expected_addr") = addr

\* the step took the message as the field key of the entry of its chat and
\* left callback as the one handler to take the next message of the chat
TakenAs(key, callback) ==
    LET chat == step'.message.chat
    IN  /\ chat \in DOMAIN main_user_data'
        /\ key \in DOMAIN main_user_data'[chat]
        /\ main_user_data'[chat][key] = step'.message.text
        /\ \A k \in DOMAIN main_user_data'[chat] \ {key} :
              /\ chat \in DOMAIN main_user_data
              /\ k \in DOMAIN main_user_data[chat]
              /\ main_user_data'[chat][k] = main_user_data[chat][k]
        /\ GetKey(next_step_handlers', chat) = <<callback>>
        /\ main_sheet' = main_sheet

\* the step appended the one row of the questionnaire of the chat of the
\* message, sent the success message and deleted the entry of the chat
Completed ==
    LET message == step'.message
        chat == message.chat
    IN  /\ chat \in DOMAIN main_user_data
        /\ {"hotel_name", "address", "comment"} \subseteq DOMAIN main_user_data[chat]
        /\ main_sheet' = Append(main_sheet,
               << main_user_data[chat]["hotel_name"], main_user_data[chat]["address"],
                  main_user_data[chat]["comment"], message.text,
                  message.first_name, clock' >>)
        /\ step'.sent = << <<chat, "success">> >>
        /\ chat \notin DOMAIN main_user_data'
        /\ GetKey(next_step_handlers', chat) = << >>

\* what a step of the questionnaire does with its message
Questionnaire ==
    LET chat == step'.message.chat
        ran == step'.ran
    IN  /\ ran = GetKey(next_step_handlers, chat)
             \/ (GetKey(next_step_handlers, chat) = << >> /\ ran \in {<<"start">>, << >>})
        /\ ran = <<"start">> =>
              /\ step'.message.text = "/start"
              /\ GetKey(next_step_handlers', chat) = <<"get_hotel_name">>
              /\ main_user_data' = main_user_data /\ main_sheet' = main_sheet
        /\ ran = <<"get_hotel_name">> =>
              /\ chat \in DOMAIN main_user_data'
              /\ main_user_data'[chat] = SetKey(<< >>, "hotel_name", step'.message.text)
              /\ GetKey(next_step_handlers', chat) = <<"get_address">>
              /\ main_sheet' = main_sheet
        /\ ran = <<"get_address">> => TakenAs("address", "get_comment")
        /\ ran = <<"get_comment">> => TakenAs("comment", "get_agent")
        /\ ran = <<"get_agent">> => Completed

SessionLifetime(chat) ==
    LET had == chat \in DOMAIN main_user_data
        has == chat \in DOMAIN main_user_data'
        own == step'.message.chat = chat
    IN  /\ (~had /\ has) => own /\ step'.ran = <<"get_hotel_name">>
        /\ (had /\ has /\ main_user_data'[chat] # main_user_data[chat]) =>
              /\ own
              /\ \/ step'.ran = <<"get_hotel_name">>
                 \/ /\ step'.ran \in {<<"get_address">>, <<"get_comment">>, <<"get_agent">>}
                    /\ \A k \in DOMAIN main_user_data[chat] \ {"address", "comment", "agent", "date"} :
                          /\ k \in DOMAIN main_user_data'[chat]
                          /\ main_user_data'[chat][k] = main_user_data[chat][k]
        /\ (had /\ ~has) =>
              /\ own /\ step'.ran = <<"get_agent">>
              /\ step'.raised = "none"
              /\ Len(main_sheet') = Len(main_sheet) + 1
        /\ (had /\ own /\ step'.ran = <<"get_agent">> /\ step'.raised = "append_row") =>
              has /\ main_sheet' = main_sheet
        /\ (had /\ step'.ran # <<"get_agent">>) => has

\* C24: the entry of a chat in user_data is created or replaced only by
\* get_hotel_name on a message of the chat and removed only by get_agent
\* after append_row returned; every other step keeps it, so it stays
\* when the conversation stops before the agent step or append_row raises.
C24_SessionLifetime == [][\A chat \in Chats : SessionLifetime(chat)]_vars

\* the entry of chat1 outlived an append_row that raised: no handler waits
\* for chat1, and a later message of chat2 was processed
C24_Witness ==
    /\ "chat1" \in DOMAIN main_user_data
    /\ "agent" \in DOMAIN main_user_data["chat1"]
    /\ GetKey(next_step_handlers, "chat1") = << >>
    /\ main_sheet = << >>
    /\ step.message.chat = "chat2"

\* the row holds values of the chat only: four texts of the chat and the
\* first name of its sender
RowOf(row, chat) ==
    /\ \A i \in 1..4 : row[i] \in TextsOf(chat)
    /\ row[5] = FirstNameOf(chat)

\* a step on a message of one chat and the other chats
SessionIsolation ==
    LET own == step'.message.chat
    IN  /\ \A other \in Chats \ {own} :
              /\ (other \in DOMAIN main_user_data') = (other \in DOMAIN main_user_data)
              /\ other \in DOMAIN main_user_data =>
                    main_user_data'[other] = main_user_data[other]
              /\ GetKey(next_step_handlers', other) = GetKey(next_step_handlers, other)
        /\ main_sheet' # main_sheet =>
              /\ Len(main_sheet') = Len(main_sheet) + 1
              /\ SubSeq(main_sheet', 1, Len(main_sheet)) = main_sheet
              /\ RowOf(main_sheet'[Len(main_sheet')], own)
              /\ \A i \in 1..3 :
                    main_sheet'[Len(main_sheet')][i] =
                        main_user_data[own][<<"hotel_name", "address", "comment">>[i]]

\* C25: whatever the interleaving of the messages of two chats, a step on
\* a message of one chat leaves the user_data entry and the waiting
\* handler of the other chat as they were, and a row it appends holds the
\* values entered in its own chat only.
C25_SessionIsolation == [][SessionIsolation]_vars

\* chat1 completed its questionnaire while the questionnaire of chat2 was
\* under way: the row is of chat1 and the entry of chat2 is there
C25_Witness ==
    /\ step # << >>
    /\ step.message.chat = "chat1" /\ step.ran = <<"get_agent">>
    /\ Len(main_sheet) = 1 /\ RowOf(main_sheet[1], "chat1")
    /\ "chat2" \in DOMAIN main_user_data
    /\ main_user_data["chat2"]["hotel_name"] = "n2"
    /\ GetKey(next_step_handlers, "chat2") = <<"get_address">>

====
